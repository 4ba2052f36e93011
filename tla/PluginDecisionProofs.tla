------------------------ MODULE PluginDecisionProofs ------------------------
(***************************************************************************)
(* Facts about Sanitizer and PluginDecision, for any patterns and values   *)
(* of any shape: what the sanitizer leaves, and which view of its          *)
(* parameters a tool can be run with.                                      *)
(***************************************************************************)
EXTENDS PluginDecision, TLAPS

-----------------------------------------------------------------------------
(* The sanitizer.                                                          *)

LEMMA CleanLeafIsClean ==
  ASSUME NEW leaf \in Leaf
  PROVE  /\ CleanLeaf(leaf) \in Leaf
         /\ CleanLeaf(leaf).marker \/ Transformations(CleanLeaf(leaf)) = {}
         /\ CleanLeaf(leaf).marker \/ ~CleanLeaf(leaf).long
<1>1. CASE leaf.named \/ leaf.kind = "binary"
  <2>1. CleanLeaf(leaf) = Marker(leaf)
    BY <1>1 DEF CleanLeaf
  <2>2. Marker(leaf) \in Leaf /\ Marker(leaf).marker
    BY DEF Marker, Leaf
  <2>. QED
    BY <2>1, <2>2
<1>2. CASE ~leaf.named /\ leaf.kind = "text"
  <2>1. CleanLeaf(leaf) = ScannedText(leaf)
    BY <1>2 DEF CleanLeaf
  <2>2. /\ ScannedText(leaf) \in Leaf
        /\ ~ScannedText(leaf).named /\ ScannedText(leaf).kind = "text"
        /\ ScannedText(leaf).secrets = {} /\ ~ScannedText(leaf).long
    BY <1>2 DEF ScannedText, TruncateUtf8, Leaf
  <2>. QED
    BY <2>1, <2>2 DEF Transformations
<1>3. CASE ~leaf.named /\ leaf.kind = "plain"
  BY <1>3 DEF CleanLeaf, Transformations, Leaf
<1>. QED
  BY <1>1, <1>2, <1>3 DEF Leaf

(* Of every value, whatever its shape and however deep its secrets, the    *)
(* sanitizer leaves a value that shows no class of secret it knows, and no *)
(* text it has not scanned to the end (sanitizeValue).                     *)
THEOREM SanitizedIsClean ==
  ASSUME NEW value \in Value
  PROVE  /\ SanitizeValue(value).value \in Value
         /\ Exposed(SanitizeValue(value).value) = {}
         /\ ~Unscanned(SanitizeValue(value).value)
<1> DEFINE clean == [p \in Fields |-> CleanLeaf(value[p])]
<1>1. SanitizeValue(value).value = clean
  BY DEF SanitizeValue
<1>2. \A p \in Fields : value[p] \in Leaf
  BY DEF Value
<1>3. clean \in Value
  BY <1>2, CleanLeafIsClean DEF Value
<1>4. \A p \in Fields : clean[p].marker \/ (Transformations(clean[p]) = {} /\ ~clean[p].long)
  BY <1>2, CleanLeafIsClean
<1>5. Exposed(clean) = {}
  BY <1>4 DEF Exposed
<1>6. ~Unscanned(clean)
  BY <1>4 DEF Unscanned
<1>. QED
  BY <1>1, <1>3, <1>5, <1>6

(* What is clean is left as it is: sanitizing twice, as the two hooks of a *)
(* tool's result do (tool_result_persist, before_message_write), leaves    *)
(* what sanitizing once leaves.                                            *)
THEOREM SanitizedTwice ==
  ASSUME NEW value \in Value
  PROVE  SanitizeValue(SanitizeValue(value).value).value = SanitizeValue(value).value
<1>1. ASSUME NEW leaf \in Leaf
      PROVE  CleanLeaf(CleanLeaf(leaf)) = CleanLeaf(leaf)
  <2>1. CASE leaf.named
    BY <2>1 DEF CleanLeaf, Marker, Leaf
  <2>2. CASE ~leaf.named /\ leaf.kind = "binary"
    BY <2>2 DEF CleanLeaf, Marker, ScannedText, TruncateUtf8, Leaf
  <2>3. CASE ~leaf.named /\ leaf.kind = "text"
    BY <2>3 DEF CleanLeaf, ScannedText, TruncateUtf8, Leaf
  <2>4. CASE ~leaf.named /\ leaf.kind = "plain"
    BY <2>4 DEF CleanLeaf
  <2>. QED
    BY <2>1, <2>2, <2>3, <2>4 DEF Leaf
<1>2. \A p \in Fields : value[p] \in Leaf
  BY DEF Value
<1>. QED
  BY <1>1, <1>2 DEF SanitizeValue

(* Nothing is exposed that is not among the classes found.                 *)
LEMMA ExposedIsClassified ==
  ASSUME NEW value
  PROVE  Exposed(value) \subseteq SanitizeValue(value).classifications
BY DEF Exposed, SanitizeValue

(* What the two hooks of a tool's result make of a message.                *)
LEMMA CleanMessage ==
  ASSUME NEW message \in Message
  PROVE  LET written == SanitizeMessage(SanitizeToolMessage(message))
         IN /\ written \in Message
            /\ Exposed(written.value) = {}
            /\ ~Unscanned(written.value)
            /\ written.tagged
<1> DEFINE once == SanitizeValue(message.value).value
           twice == SanitizeValue(once).value
<1>1. message.value \in Value
  BY DEF Message
<1>2. once \in Value
  BY <1>1, SanitizedIsClean
<1>3. twice \in Value /\ Exposed(twice) = {} /\ ~Unscanned(twice)
  BY <1>2, SanitizedIsClean
<1>4. SanitizeToolMessage(message) = [value |-> once, tagged |-> TRUE]
  BY DEF SanitizeToolMessage, SanitizeMessage, TagText
<1>5. SanitizeMessage(SanitizeToolMessage(message)) = [value |-> twice, tagged |-> TRUE]
  BY <1>4 DEF SanitizeMessage
<1> HIDE DEF once, twice
<1>. QED
  BY <1>3, <1>5 DEF Message

-----------------------------------------------------------------------------
(* The execution view.                                                     *)

(* A plan under which a tool may be shown the secrets of its parameters.   *)
Preserves(d, classes) ==
  /\ classes \subseteq Planned(d)
  /\ "preserve" \in Actions(d)
  /\ Actions(d) \subseteq {"preserve", "late_bind"}

(* Nothing the sanitizer finds is sent to guardd.                          *)
LEMMA SentIsClean ==
  ASSUME NEW act, act.params \in Value
  PROVE  Exposed(UnifiedEvent(act).params) = {}
<1> DEFINE local == SanitizeValue(act.params).value
           clean == SanitizeValue(local).value
<1>1. local \in Value
  BY SanitizedIsClean
<1>2. Exposed(clean) = {}
  BY <1>1, SanitizedIsClean
<1>3. UnifiedEvent(act).params = clean
  BY DEF UnifiedEvent
<1>. QED
  BY <1>2, <1>3

(* A call with secrets is run with what it was given only under a plan     *)
(* that names every class found and asks to preserve all of them.          *)
LEMMA ShownIsPreserved ==
  ASSUME NEW act \in Act, NEW d \in GuardDecision,
         ExecutionView(d, Classes(act), TRUE) # "blocked",
         Shown(act, ExecutionView(d, Classes(act), TRUE)) # {}
  PROVE  Preserves(d, Classes(act))
<1> DEFINE classes == Classes(act)
           view == ExecutionView(d, classes, TRUE)
<1>1. act.params \in Value
  BY DEF Act
<1>2. CASE classes = {}
  <2>1. view \in {"host", "service"}
    BY <1>2 DEF ExecutionView
  <2>2. Exposed(act.params) = {}
    BY <1>2, ExposedIsClassified DEF Classes
  <2>3. Exposed(UnifiedEvent(act).params) = {}
    BY <1>1, SentIsClean
  <2>. QED
    BY <2>1, <2>2, <2>3 DEF Shown
<1>3. CASE classes # {}
  <2>1. ~Unsafe(d, classes) /\ view \in {"clean", "raw"}
    BY <1>3 DEF ExecutionView
  <2>2. view # "clean"
    BY <1>1, <2>1, SanitizedIsClean DEF Shown
  <2>3. Actions(d) \cap {"redact", "drop"} = {}
    BY <1>3, <2>1, <2>2 DEF ExecutionView, Unsafe
  <2>4. Actions(d) \subseteq TransformationAction
    BY DEF Actions, GuardDecision
  <2>. QED
    BY <2>1, <2>3, <2>4 DEF Unsafe, Covers, Preserves, TransformationAction
<1>. QED
  BY <1>2, <1>3

LEMMA ViewIsView ==
  ASSUME NEW d \in GuardDecision, NEW classes, NEW enforce \in BOOLEAN
  PROVE  ExecutionView(d, classes, enforce) \in {"host", "raw", "clean", "service", "blocked"}
BY DEF ExecutionView
=============================================================================
