------------------------------ MODULE Listing -------------------------------
(***************************************************************************)
(* list: the iterators Queues and Messages over a listing's pages.         *)
(*                                                                         *)
(* A walk asks for a page, yields its items and asks for the page after    *)
(* its Next.  Meanwhile others walk the same iterator, and the listing     *)
(* changes: it is the server's, external, and ordered; its items are       *)
(* numbered in that order and a cursor is the number of an item.           *)
(***************************************************************************)
EXTENDS Integers, Sequences, Wire

CONSTANTS
  Walks,      \* Loops over the one iterator.
  Size,       \* The items there can be are 1..Size.
  Matching,   \* Those the request's filter keeps.
  PageSize,   \* The most items on a page.
  Starts,     \* Request.After: where the request starts, 0 for the beginning.
  WireState   \* The state of each item, as the page spells it.

Items == 1..Size

ASSUME ListingAssumption ==
  /\ Size \in Nat /\ PageSize \in Nat \ {0}
  /\ Matching \subseteq Items
  /\ Starts \subseteq 0..Size
  /\ DOMAIN WireState = Items

VARIABLES
  start,     \* list's start.
  listing,   \* The items there are.
  pc,        \* Where a walk is.
  after,     \* The cursor of the page to ask for.
  page,      \* The items of the page in hand not yielded yet.
  next,      \* Its Next; 0 stands for the empty cursor.
  yielded,   \* The items yielded, oldest first.
  stayed     \* History: the items listed ever since the walk began.

vars == <<start, listing, pc, after, page, next, yielded, stayed>>

ListingTypeOK ==
  /\ start \in Starts
  /\ listing \subseteq Items
  /\ pc \in [Walks -> {"new", "ask", "yield", "complete", "broken", "failed"}]
  /\ after \in [Walks -> 0..Size]
  /\ page \in [Walks -> Seq(Items)]
  /\ next \in [Walks -> 0..Size]
  /\ yielded \in [Walks -> Seq(Items)]
  /\ stayed \in [Walks -> SUBSET Items]

Init ==
  /\ start \in Starts
  /\ listing \in SUBSET Items
  /\ pc = [w \in Walks |-> "new"]
  /\ after = [w \in Walks |-> 0]
  /\ page = [w \in Walks |-> <<>>]
  /\ next = [w \in Walks |-> 0]
  /\ yielded = [w \in Walks |-> <<>>]
  /\ stayed = [w \in Walks |-> {}]

-----------------------------------------------------------------------------
\* The server reads on from the cursor as far as it likes, but on, and keeps
\* what matches: a page may be empty and have a Next.  It has none when
\* nothing that matches is left.
PageAfter(cursor, upto) == {i \in listing \cap Matching : cursor < i /\ i <= upto}
Nil == -1
NextAfter(upto) ==
  IF \E i \in listing \cap Matching : i > upto THEN {upto} ELSE {Nil, 0, upto}

\* The items of a page come in their order, each of them once.
PagesOf(items) ==
  {s \in UNION {[1..n -> items] : n \in 0..PageSize} :
     /\ \A i, j \in DOMAIN s : i < j => s[i] < s[j]
     /\ \A i \in items : \E k \in DOMAIN s : s[k] = i}

\* page.toPage: a page without a Next and one with an empty cursor are alike.
toPage(cursor) == IF cursor = Nil THEN 0 ELSE cursor

\* A walk begins where the iterator was given to start, every time.
Begin(w) ==
  /\ pc[w] \in {"new", "complete", "broken", "failed"}
  /\ pc' = [pc EXCEPT ![w] = "ask"]
  /\ after' = [after EXCEPT ![w] = start]
  /\ page' = [page EXCEPT ![w] = <<>>]
  /\ yielded' = [yielded EXCEPT ![w] = <<>>]
  /\ stayed' = [stayed EXCEPT ![w] = listing]
  /\ UNCHANGED <<start, listing, next>>

\* Client.Messages: the page decodes if the state of each of its items does.
Ask(w) ==
  /\ pc[w] = "ask"
  /\ \E upto \in after[w] + 1..Size :
       LET items == PageAfter(after[w], upto)
       IN /\ \A i \in items : Decodes(messageState4wire, WireState[i])
          /\ \E s \in PagesOf(items) : page' = [page EXCEPT ![w] = s]
          /\ \E n \in NextAfter(upto) : next' = [next EXCEPT ![w] = toPage(n)]
  /\ pc' = [pc EXCEPT ![w] = "yield"]
  /\ UNCHANGED <<start, listing, after, yielded, stayed>>

\* Past the last item there is an empty page.
AskPastEnd(w) ==
  /\ pc[w] = "ask"
  /\ after[w] = Size
  /\ page' = [page EXCEPT ![w] = <<>>]
  /\ next' = [next EXCEPT ![w] = 0]
  /\ pc' = [pc EXCEPT ![w] = "yield"]
  /\ UNCHANGED <<start, listing, after, yielded, stayed>>

\* The operation failed, or its page did not decode: an item is in a state
\* this version does not know.  The walk yields the error and is over.
AskFails(w) ==
  /\ pc[w] = "ask"
  /\ pc' = [pc EXCEPT ![w] = "failed"]
  /\ UNCHANGED <<start, listing, after, page, next, yielded, stayed>>

Yield(w) ==
  /\ pc[w] = "yield" /\ page[w] # <<>>
  /\ yielded' = [yielded EXCEPT ![w] = Append(@, Head(page[w]))]
  /\ page' = [page EXCEPT ![w] = Tail(@)]
  /\ UNCHANGED <<start, listing, pc, after, next, stayed>>

\* The loop over the iterator breaks at an item.
Break(w) ==
  /\ pc[w] = "yield" /\ page[w] # <<>>
  /\ yielded' = [yielded EXCEPT ![w] = Append(@, Head(page[w]))]
  /\ pc' = [pc EXCEPT ![w] = "broken"]
  /\ UNCHANGED <<start, listing, after, page, next, stayed>>

\* Mutant: the cursor is taken for the first item of the page to ask for.
TurnPast(w) ==
  /\ pc[w] = "yield" /\ page[w] = <<>> /\ next[w] # 0
  /\ after' = [after EXCEPT ![w] = next[w] + 1]
  /\ pc' = [pc EXCEPT ![w] = "ask"]
  /\ UNCHANGED <<start, listing, page, next, yielded, stayed>>

\* Mutant: the cursor is not moved.
TurnNowhere(w) ==
  /\ pc[w] = "yield" /\ page[w] = <<>> /\ next[w] # 0
  /\ pc' = [pc EXCEPT ![w] = "ask"]
  /\ UNCHANGED <<start, listing, after, page, next, yielded, stayed>>

Turn(w) ==
  /\ pc[w] = "yield" /\ page[w] = <<>> /\ next[w] # 0
  /\ after' = [after EXCEPT ![w] = next[w]]
  /\ pc' = [pc EXCEPT ![w] = "ask"]
  /\ UNCHANGED <<start, listing, page, next, yielded, stayed>>

\* Mutant: a page without items is taken for the last.
EndOfItems(w) ==
  /\ pc[w] = "yield" /\ page[w] = <<>>
  /\ pc' = [pc EXCEPT ![w] = "complete"]
  /\ UNCHANGED <<start, listing, after, page, next, yielded, stayed>>

End(w) ==
  /\ pc[w] = "yield" /\ page[w] = <<>> /\ next[w] = 0
  /\ pc' = [pc EXCEPT ![w] = "complete"]
  /\ UNCHANGED <<start, listing, after, page, next, yielded, stayed>>

\* The listing changes under the walks.
Change(i) ==
  /\ listing' = IF i \in listing THEN listing \ {i} ELSE listing \cup {i}
  /\ stayed' = [w \in Walks |-> stayed[w] \ {i}]
  /\ UNCHANGED <<start, pc, after, page, next, yielded>>

Walk(w) == Ask(w) \/ AskPastEnd(w) \/ AskFails(w) \/ Yield(w) \/ Break(w)
             \/ Turn(w) \/ End(w)

Next ==
  \/ \E w \in Walks : Begin(w) \/ Walk(w)
  \/ \E i \in Items : Change(i)

Spec == Init /\ [][Next]_vars

\* The loop runs on, and every operation returns.
FairSpec == Spec /\ \A w \in Walks : WF_vars(Walk(w))

-----------------------------------------------------------------------------
\* No item is yielded twice or out of order, whatever is inserted or removed
\* behind or ahead of the walk, and none from before where it starts.
InOrder ==
  \A w \in Walks :
    /\ \A i, j \in DOMAIN yielded[w] : i < j => yielded[w][i] < yielded[w][j]
    /\ \A i \in DOMAIN yielded[w] : yielded[w][i] > start

\* A walk that came to its end yielded every item that matches and was there
\* all along, empty pages or not.
NothingSkipped ==
  \A w \in Walks : pc[w] = "complete" =>
    \A i \in stayed[w] \cap Matching :
      i > start => \E k \in DOMAIN yielded[w] : yielded[w][k] = i

\* A walk whose pages keep coming is over some day, changes or not.
EveryWalkEnds ==
  \A w \in Walks : pc[w] = "ask" ~> pc[w] \in {"complete", "broken", "failed"}
=============================================================================
