---------------------------- MODULE GenericList ----------------------------
(***************************************************************************)
(* generic_list.c: doubly linked lists of elements that their owners       *)
(* allocate, shared by tasks and interrupt handlers.  Each operation works *)
(* with interrupts disabled and is one step, except LIST_RemoveElement and *)
(* LIST_AddPrevElement, which test that their element is in a list before  *)
(* they disable interrupts: these are two steps.  An operation that        *)
(* returns an error changes nothing and is a stutter.                      *)
(*                                                                         *)
(* The size is 16 bits wide: fewer than 65536 elements are assumed.        *)
(***************************************************************************)
EXTENDS Integers, Sequences

CONSTANTS Lists, Elements,
          Null,
          Callers,    \* tasks and handlers that may be inside a call
          Max         \* capacity of each list, 0 for unlimited

ASSUME ListAssumption ==
  /\ Null \notin Lists \cup Elements
  /\ Max \in [Lists -> Nat]

VARIABLES head, tail, size,  \* of each list
          next, prev, list,  \* of each element
          target,            \* of each caller: the element whose list the
                             \* pending call has tested, or Null
          newElement         \* the element to add before it; Null: remove it

listVars == <<head, tail, size>>
elementVars == <<next, prev, list>>
callVars == <<target, newElement>>
vars == <<listVars, elementVars, callVars>>

\* LIST_Init of every list; the elements are zeroed by their owners.
Init ==
  /\ head = [l \in Lists |-> Null] /\ tail = [l \in Lists |-> Null]
  /\ size = [l \in Lists |-> 0]
  /\ next = [e \in Elements |-> Null] /\ prev = [e \in Elements |-> Null]
  /\ list = [e \in Elements |-> Null]
  /\ target = [c \in Callers |-> Null] /\ newElement = [c \in Callers |-> Null]

\* What following next from the head visits.
Walks(l) ==
  {s \in [1 .. size[l] -> Elements] :
     \A i \in 1 .. size[l] : s[i] = IF i = 1 THEN head[l] ELSE next[s[i - 1]]}

LIST_Scan(l, e) == \E s \in Walks(l) : \E i \in 1 .. size[l] : s[i] = e

\* Wrong variants of operators below, used by no definition.
NotLinkedBack(l, e) == prev
NextKept(e) == next

Full(l) == Max[l] # 0 /\ Max[l] = size[l]

\* An element is added only when it is in no list, or in the same one (which
\* finds it and adds nothing): the scan does not look at other lists.
CanAdd(l, e) ==
  /\ list[e] \in {Null, l}
  /\ ~Full(l) /\ ~LIST_Scan(l, e)

Grown(l) == [size EXCEPT ![l] = @ + 1]
LinkedBack(l, e) == [prev EXCEPT ![e] = tail[l]]

LIST_AddTail(l, e) ==
  /\ CanAdd(l, e)
  /\ head' = [head EXCEPT ![l] = IF size[l] = 0 THEN e ELSE @]
  /\ tail' = [tail EXCEPT ![l] = e]
  /\ size' = Grown(l)
  /\ next' = [x \in Elements |->
                IF x = e THEN Null
                ELSE IF size[l] # 0 /\ x = tail[l] THEN e ELSE next[x]]
  /\ prev' = LinkedBack(l, e)
  /\ list' = [list EXCEPT ![e] = l]
  /\ UNCHANGED callVars

LIST_AddHead(l, e) ==
  /\ CanAdd(l, e)
  /\ head' = [head EXCEPT ![l] = e]
  /\ tail' = [tail EXCEPT ![l] = IF size[l] = 0 THEN e ELSE @]
  /\ size' = Grown(l)
  /\ next' = [next EXCEPT ![e] = head[l]]
  /\ prev' = [x \in Elements |->
                IF x = e THEN Null
                ELSE IF size[l] # 0 /\ x = head[l] THEN e ELSE prev[x]]
  /\ list' = [list EXCEPT ![e] = l]
  /\ UNCHANGED callVars

\* The removed element keeps its next and prev.
LIST_RemoveHead(l) ==
  /\ size[l] # 0
  /\ LET e == head[l] IN
       /\ head' = [head EXCEPT ![l] = next[e]]
       /\ tail' = [tail EXCEPT ![l] = IF size[l] = 1 THEN Null ELSE @]
       /\ prev' = [x \in Elements |->
                     IF size[l] # 1 /\ x = next[e] THEN Null ELSE prev[x]]
       /\ list' = [list EXCEPT ![e] = Null]
  /\ size' = [size EXCEPT ![l] = @ - 1]
  /\ UNCHANGED <<next, callVars>>

-----------------------------------------------------------------------------
(* LIST_RemoveElement and LIST_AddPrevElement *)

\* The neighbours of a removed element point past it.
NextSkipping(e) ==
  [x \in Elements |-> IF x = prev[e] THEN next[e] ELSE next[x]]
PrevSkipping(e) ==
  [x \in Elements |-> IF x = next[e] THEN prev[e] ELSE prev[x]]

\* The test, with interrupts enabled: other callers may remove the element, or
\* move it to another list, before the call goes on.
TestList(c, e, new) ==
  /\ target[c] = Null /\ list[e] # Null
  /\ target' = [target EXCEPT ![c] = e]
  /\ newElement' = [newElement EXCEPT ![c] = new]
  /\ UNCHANGED <<listVars, elementVars>>

Return(c) ==
  /\ target' = [target EXCEPT ![c] = Null]
  /\ newElement' = [newElement EXCEPT ![c] = Null]

\* If the element has left its list meanwhile, element->list is null: what the
\* processor does then is not modelled, the call stays pending.
LIST_RemoveElement(c) ==
  /\ target[c] # Null /\ newElement[c] = Null
  /\ list[target[c]] # Null
  /\ LET e == target[c]  l == list[e] IN
       /\ head' = [head EXCEPT ![l] = IF prev[e] = Null THEN next[e] ELSE @]
       /\ tail' = [tail EXCEPT ![l] = IF next[e] = Null THEN prev[e] ELSE @]
       /\ next' = NextSkipping(e)
       /\ prev' = PrevSkipping(e)
       /\ size' = [size EXCEPT ![l] = @ - 1]
       /\ list' = [list EXCEPT ![e] = Null]
  /\ Return(c)

LIST_AddPrevElement(c) ==
  /\ target[c] # Null /\ newElement[c] # Null /\ list[target[c]] # Null
  /\ LET e == target[c]  new == newElement[c]  l == list[e] IN
       /\ CanAdd(l, new)
       /\ head' = [head EXCEPT ![l] = IF prev[e] = Null THEN new ELSE @]
       /\ next' = [x \in Elements |->
                     IF x = new THEN e
                     ELSE IF x = prev[e] THEN new ELSE next[x]]
       /\ prev' = [prev EXCEPT ![new] = prev[e], ![e] = new]
       /\ list' = [list EXCEPT ![new] = l]
       /\ size' = Grown(l)
  /\ Return(c) /\ UNCHANGED tail

\* It returns kLIST_Full or kLIST_DuplicateError.
AddPrevRefused(c) ==
  /\ target[c] # Null /\ newElement[c] # Null
  /\ LET l == list[target[c]] IN
       l # Null /\ (Full(l) \/ LIST_Scan(l, newElement[c]))
  /\ Return(c) /\ UNCHANGED <<listVars, elementVars>>

-----------------------------------------------------------------------------
Next ==
  \/ \E l \in Lists :
       \/ LIST_RemoveHead(l)
       \/ \E e \in Elements : LIST_AddTail(l, e) \/ LIST_AddHead(l, e)
  \/ \E c \in Callers :
       \/ \E e \in Elements, new \in Elements \cup {Null} : TestList(c, e, new)
       \/ LIST_RemoveElement(c) \/ LIST_AddPrevElement(c)
       \/ AddPrevRefused(c)

Spec == Init /\ [][Next]_vars

-----------------------------------------------------------------------------
(* Properties *)

TypeOK ==
  /\ head \in [Lists -> Elements \cup {Null}]
  /\ tail \in [Lists -> Elements \cup {Null}]
  /\ size \in [Lists -> Nat]
  /\ next \in [Elements -> Elements \cup {Null}]
  /\ prev \in [Elements -> Elements \cup {Null}]
  /\ list \in [Elements -> Lists \cup {Null}]
  /\ target \in [Callers -> Elements \cup {Null}]
  /\ newElement \in [Callers -> Elements \cup {Null}]

\* The pointers of l describe the sequence s: head, tail, next and prev agree
\* with it, its elements are those whose list is l, and none occurs twice.
Describes(l, s) ==
  /\ head[l] = IF size[l] = 0 THEN Null ELSE s[1]
  /\ tail[l] = IF size[l] = 0 THEN Null ELSE s[size[l]]
  /\ \A i \in 1 .. size[l] :
       /\ list[s[i]] = l
       /\ next[s[i]] = IF i = size[l] THEN Null ELSE s[i + 1]
       /\ prev[s[i]] = IF i = 1 THEN Null ELSE s[i - 1]
       /\ \A j \in 1 .. size[l] : s[i] = s[j] => i = j
  /\ \A e \in Elements : list[e] = l => \E i \in 1 .. size[l] : s[i] = e

\* Every list is a sequence of its size, the same in both directions, whatever
\* happens to its neighbours between the two halves of a call.
WellFormed ==
  \A l \in Lists : \E s \in [1 .. size[l] -> Elements] : Describes(l, s)

\* A list never holds more elements than its capacity: LIST_AddPrevElement
\* compares sizes after the lock, not with the size its test saw.
WithinCapacity == \A l \in Lists : Max[l] # 0 => size[l] <= Max[l]

\* Each operation changes one list, in the place its name says, and leaves the
\* order of the others as it was.
Contents(l) == CHOOSE s \in Walks(l) : TRUE
Where(e, s) == CHOOSE i \in DOMAIN s : s[i] = e
InPlace(l) ==
  \/ UNCHANGED Contents(l)
  \/ \E e \in Elements :
       \/ LIST_AddTail(l, e) /\ Contents(l)' = Append(Contents(l), e)
       \/ LIST_AddHead(l, e) /\ Contents(l)' = <<e>> \o Contents(l)
  \/ LIST_RemoveHead(l) /\ Contents(l)' = Tail(Contents(l))
  \/ \E c \in Callers :
       LET s == Contents(l)
           i == Where(target[c], s) IN
       /\ target[c] # Null /\ list[target[c]] = l
       /\ \/ /\ LIST_RemoveElement(c)
             /\ Contents(l)' = SubSeq(s, 1, i - 1) \o SubSeq(s, i + 1, Len(s))
          \/ /\ LIST_AddPrevElement(c)
             /\ Contents(l)' = SubSeq(s, 1, i - 1) \o <<newElement[c]>>
                                 \o SubSeq(s, i, Len(s))
OperationsInPlace == [][\A l \in Lists : InPlace(l)]_vars
=============================================================================
