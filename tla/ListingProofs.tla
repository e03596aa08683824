---------------------------- MODULE ListingProofs ----------------------------
(***************************************************************************)
(* What a walk over a listing yields, for any listing, any way the server  *)
(* cuts it into pages, and any changes under any number of walks.          *)
(***************************************************************************)
EXTENDS Listing, TLAPS

Increasing(s) == \A i, j \in DOMAIN s : i < j => s[i] < s[j]
Has(s, i)     == \E k \in DOMAIN s : s[k] = i
UpTo(s, n)    == \A k \in DOMAIN s : s[k] <= n
Past(s, n)    == \A k \in DOMAIN s : s[k] > n

\* What was yielded is in order and past the start, the page in hand goes on
\* from there, and the cursor is past both.
Placed(w) ==
  /\ Increasing(yielded[w]) /\ Past(yielded[w], start)
  /\ pc[w] = "ask" => start <= after[w] /\ UpTo(yielded[w], after[w])
  /\ pc[w] = "yield" =>
       /\ Increasing(page[w]) /\ Past(page[w], start)
       /\ \A k \in DOMAIN page[w] : UpTo(yielded[w], page[w][k] - 1)
       /\ next[w] # 0 => /\ start <= next[w]
                         /\ UpTo(yielded[w], next[w]) /\ UpTo(page[w], next[w])

\* What stayed is listed, and of it the walk has all that matches as far as it
\* got: up to its cursor, or to the end.
Covered(w) ==
  /\ stayed[w] \subseteq listing
  /\ \A i \in stayed[w] \cap Matching : i > start =>
       /\ pc[w] = "ask" /\ i <= after[w] => Has(yielded[w], i)
       /\ pc[w] = "yield" /\ (next[w] = 0 \/ i <= next[w])
            => Has(yielded[w], i) \/ Has(page[w], i)
       /\ pc[w] = "complete" => Has(yielded[w], i)

IInv == ListingTypeOK /\ \A w \in Walks : Placed(w) /\ Covered(w)

-----------------------------------------------------------------------------
\* An item moved from the head of the page to the end of what was yielded.
LEMMA OneMore ==
  ASSUME NEW y \in Seq(Items), NEW p \in Seq(Items), p # <<>>,
         Increasing(y), Increasing(p),
         \A k \in DOMAIN p : UpTo(y, p[k] - 1)
  PROVE  LET z == Append(y, Head(p))
         IN /\ z \in Seq(Items) /\ Tail(p) \in Seq(Items)
            /\ Increasing(z) /\ Increasing(Tail(p))
            /\ \A k \in DOMAIN Tail(p) : UpTo(z, Tail(p)[k] - 1)
            /\ \A n \in Int : /\ UpTo(y, n) /\ UpTo(p, n) => UpTo(z, n) /\ UpTo(Tail(p), n)
                              /\ Past(y, n) /\ Past(p, n) => Past(z, n) /\ Past(Tail(p), n)
            /\ \A i \in Int : Has(y, i) \/ Has(p, i) => Has(z, i) \/ Has(Tail(p), i)
            /\ \A i \in Int : Has(y, i) => Has(z, i)
<1> DEFINE z == Append(y, Head(p))
           t == Tail(p)
<1>0. Items \subseteq Int
  BY ListingAssumption DEF Items
<1>1. /\ Len(y) \in Nat /\ DOMAIN y = 1..Len(y) /\ \A k \in DOMAIN y : y[k] \in Int
      /\ Len(p) \in Nat \ {0} /\ DOMAIN p = 1..Len(p) /\ \A k \in DOMAIN p : p[k] \in Int
  <2>1. Len(y) \in Nat /\ DOMAIN y = 1..Len(y) /\ \A k \in DOMAIN y : y[k] \in Items
    OBVIOUS
  <2>2. Len(p) \in Nat \ {0} /\ DOMAIN p = 1..Len(p) /\ \A k \in DOMAIN p : p[k] \in Items
    OBVIOUS
  <2> QED
    BY <1>0, <2>1, <2>2
<1>2. /\ z \in Seq(Items) /\ DOMAIN z = 1..Len(y) + 1
      /\ \A k \in DOMAIN y : z[k] = y[k]
      /\ z[Len(y) + 1] = p[1]
  OBVIOUS
<1>3. /\ t \in Seq(Items) /\ DOMAIN t = 1..Len(p) - 1
      /\ \A k \in DOMAIN t : t[k] = p[k + 1]
  OBVIOUS
<1> HIDE DEF z, t
<1>4. \A k \in DOMAIN z : k \in DOMAIN y \/ k = Len(y) + 1
  BY <1>1, <1>2
<1>5. \A k \in DOMAIN t : k + 1 \in DOMAIN p /\ 1 \in DOMAIN p /\ p[1] < p[k + 1]
  <2> SUFFICES ASSUME NEW k \in DOMAIN t
               PROVE  k + 1 \in DOMAIN p /\ 1 \in DOMAIN p /\ p[1] < p[k + 1]
    OBVIOUS
  <2>1. k + 1 \in DOMAIN p /\ 1 \in DOMAIN p /\ 1 < k + 1
    BY <1>1, <1>3
  <2>2. \A i, j \in DOMAIN p : i < j => p[i] < p[j]
    BY DEF Increasing
  <2> QED
    BY <2>1, <2>2
<1>6. \A j \in DOMAIN y : \A k \in DOMAIN p : y[j] < p[k]
  BY <1>1 DEF UpTo
<1>7. Increasing(z)
  BY <1>1, <1>2, <1>4, <1>6 DEF Increasing
<1>8. Increasing(t)
  BY <1>1, <1>3, <1>5 DEF Increasing
<1>9. \A k \in DOMAIN t : UpTo(z, t[k] - 1)
  <2> SUFFICES ASSUME NEW k \in DOMAIN t, NEW j \in DOMAIN z PROVE z[j] <= t[k] - 1
    BY DEF UpTo
  <2>1. t[k] = p[k + 1] /\ k + 1 \in DOMAIN p /\ t[k] \in Int /\ p[1] < t[k] /\ p[1] \in Int
    BY <1>1, <1>3, <1>5
  <2>2. CASE j \in DOMAIN y
    BY <1>1, <1>2, <1>6, <2>1, <2>2
  <2>3. CASE j = Len(y) + 1
    BY <1>2, <2>1, <2>3
  <2> QED
    BY <1>4, <2>2, <2>3
<1>10. \A n \in Int : /\ UpTo(y, n) /\ UpTo(p, n) => UpTo(z, n) /\ UpTo(t, n)
                      /\ Past(y, n) /\ Past(p, n) => Past(z, n) /\ Past(t, n)
  <2> SUFFICES ASSUME NEW n \in Int
               PROVE  /\ UpTo(y, n) /\ UpTo(p, n) => UpTo(z, n) /\ UpTo(t, n)
                      /\ Past(y, n) /\ Past(p, n) => Past(z, n) /\ Past(t, n)
    OBVIOUS
  <2>1. 1 \in DOMAIN p
    BY <1>1
  <2>2. \A k \in DOMAIN z : z[k] = p[1] \/ (k \in DOMAIN y /\ z[k] = y[k])
    BY <1>2, <1>4
  <2>3. \A k \in DOMAIN t : k + 1 \in DOMAIN p /\ t[k] = p[k + 1]
    BY <1>3, <1>5
  <2>4. UpTo(y, n) /\ UpTo(p, n) => UpTo(z, n) /\ UpTo(t, n)
    BY <2>1, <2>2, <2>3 DEF UpTo
  <2>5. Past(y, n) /\ Past(p, n) => Past(z, n) /\ Past(t, n)
    BY <2>1, <2>2, <2>3 DEF Past
  <2> QED
    BY <2>4, <2>5
<1>11. \A i \in Int : Has(y, i) => Has(z, i)
  BY <1>1, <1>2 DEF Has
<1>12. \A i \in Int : Has(p, i) => Has(z, i) \/ Has(t, i)
  <2> SUFFICES ASSUME NEW i \in Int, NEW k \in DOMAIN p, p[k] = i
               PROVE  Has(z, i) \/ Has(t, i)
    BY DEF Has
  <2>1. CASE k = 1
    BY <1>1, <1>2, <2>1 DEF Has
  <2>2. CASE k # 1
    <3>1. k - 1 \in DOMAIN t /\ t[k - 1] = p[k]
      BY <1>1, <1>3, <2>2
    <3> QED
      BY <3>1 DEF Has
  <2> QED
    BY <2>1, <2>2
<1> QED
  BY <1>2, <1>3, <1>7, <1>8, <1>9, <1>10, <1>11, <1>12 DEF z, t

\* A page the server may give after a cursor.
LEMMA APage ==
  ASSUME NEW cursor \in Int, NEW upto \in Int, NEW s \in PagesOf(PageAfter(cursor, upto)),
         listing \subseteq Items
  PROVE  /\ s \in Seq(Items) /\ Increasing(s)
         /\ Past(s, cursor) /\ UpTo(s, upto)
         /\ \A i \in PageAfter(cursor, upto) : Has(s, i)
<1>1. PICK n \in 0..PageSize : s \in [1..n -> PageAfter(cursor, upto)]
  BY DEF PagesOf
<1>2. PageAfter(cursor, upto) \subseteq Items
  BY DEF PageAfter
<1>3. n \in Nat /\ s \in [1..n -> Items]
  BY <1>1, <1>2, ListingAssumption
<1>4. s \in Seq(Items)
  BY <1>3
<1>5. \A k \in DOMAIN s : cursor < s[k] /\ s[k] <= upto
  BY <1>1 DEF PageAfter
<1>6. Increasing(s) /\ \A i \in PageAfter(cursor, upto) : Has(s, i)
  BY DEF PagesOf, Increasing, Has
<1>7. \A k \in DOMAIN s : s[k] \in Int
  BY <1>3, ListingAssumption DEF Items
<1> QED
  BY <1>4, <1>5, <1>6, <1>7 DEF Past, UpTo

-----------------------------------------------------------------------------
\* Nothing was asked yet.
LEMMA InitIInv == Init => IInv
BY ListingAssumption
   DEF Init, IInv, ListingTypeOK, Placed, Covered, Increasing, Past

\* A walk no step touches, while the listing stays as it is.
LEMMA Untouched ==
  ASSUME NEW w \in Walks, Placed(w), Covered(w),
         UNCHANGED <<start, listing>>, pc'[w] = pc[w], after'[w] = after[w],
         page'[w] = page[w], next'[w] = next[w], yielded'[w] = yielded[w],
         stayed'[w] = stayed[w]
  PROVE  Placed(w)' /\ Covered(w)'
BY DEF Placed, Covered, Increasing, Has, UpTo, Past

\* A step of one walk is a matter of that walk.
LEMMA OneWalk ==
  ASSUME IInv, NEW w \in Walks, UNCHANGED <<start, listing>>,
         \A x \in Walks \ {w} :
           /\ pc'[x] = pc[x] /\ after'[x] = after[x] /\ page'[x] = page[x]
           /\ next'[x] = next[x] /\ yielded'[x] = yielded[x] /\ stayed'[x] = stayed[x],
         ListingTypeOK', Placed(w)', Covered(w)'
  PROVE  IInv'
<1> SUFFICES ASSUME NEW x \in Walks PROVE Placed(x)' /\ Covered(x)'
  BY DEF IInv
<1>1. CASE x = w
  BY <1>1
<1>2. CASE x # w
  BY <1>2, Untouched DEF IInv
<1> QED
  BY <1>1, <1>2

\* A walk begins with nothing yielded, and what is listed then stayed so far.
LEMMA BeginStep == ASSUME IInv, NEW w \in Walks, Begin(w) PROVE IInv'
<1>1. /\ pc'[w] = "ask" /\ after'[w] = start /\ page'[w] = <<>>
      /\ yielded'[w] = <<>> /\ stayed'[w] = listing
      /\ UNCHANGED <<start, listing, next>>
  BY DEF Begin, IInv, ListingTypeOK
<1>2. start \in Nat /\ start \in 0..Size /\ start \in Starts
  BY ListingAssumption DEF IInv, ListingTypeOK
<1>3. ListingTypeOK'
  BY <1>2, ListingAssumption DEF Begin, IInv, ListingTypeOK
<1>4. Placed(w)'
  BY <1>1, <1>2 DEF Placed, Increasing, Past, UpTo
<1>5. Covered(w)'
  <2>1. \A i \in listing : i \in Int
    BY ListingAssumption DEF IInv, ListingTypeOK, Items
  <2> QED
    BY <1>1, <1>2, <2>1 DEF Covered
<1>6. UNCHANGED <<start, listing>>
      /\ \A x \in Walks \ {w} :
           /\ pc'[x] = pc[x] /\ after'[x] = after[x] /\ page'[x] = page[x]
           /\ next'[x] = next[x] /\ yielded'[x] = yielded[x] /\ stayed'[x] = stayed[x]
  BY DEF Begin, IInv, ListingTypeOK
<1> QED
  BY <1>3, <1>4, <1>5, <1>6, OneWalk

\* The page that comes goes on after the cursor, and misses nothing that stayed.
LEMMA AskStep == ASSUME IInv, NEW w \in Walks, Ask(w) PROVE IInv'
<1>0. /\ start \in Nat /\ after[w] \in Nat /\ Size \in Nat
      /\ listing \subseteq Items /\ Items \subseteq Int
      /\ pc[w] = "ask" /\ Placed(w) /\ Covered(w) /\ yielded[w] \in Seq(Items)
  BY ListingAssumption DEF Ask, IInv, ListingTypeOK, Items
<1>1. PICK upto \in after[w] + 1..Size :
        /\ \E s \in PagesOf(PageAfter(after[w], upto)) : page' = [page EXCEPT ![w] = s]
        /\ \E n \in NextAfter(upto) : next' = [next EXCEPT ![w] = toPage(n)]
  BY DEF Ask
<1>2. PICK s \in PagesOf(PageAfter(after[w], upto)) : page' = [page EXCEPT ![w] = s]
  BY <1>1
<1>3. PICK n \in NextAfter(upto) : next' = [next EXCEPT ![w] = toPage(n)]
  BY <1>1
<1>4. upto \in Nat /\ upto > after[w] /\ upto <= Size
  BY <1>0, <1>1
<1>5. /\ s \in Seq(Items) /\ Increasing(s) /\ Past(s, after[w]) /\ UpTo(s, upto)
      /\ \A i \in PageAfter(after[w], upto) : Has(s, i)
  BY <1>0, <1>4, APage
<1>6. toPage(n) \in {0, upto}
      /\ (toPage(n) = 0 => ~\E i \in listing \cap Matching : i > upto)
  <2>1. n \in {Nil, 0, upto}
    BY DEF NextAfter
  <2>2. n # upto => ~\E i \in listing \cap Matching : i > upto
    BY DEF NextAfter
  <2>3. upto # 0 /\ upto # Nil
    BY <1>0, <1>4 DEF Nil
  <2>4. toPage(upto) = upto
    BY <2>3 DEF toPage
  <2>5. toPage(n) \in {0, upto} /\ (n = upto => toPage(n) # 0)
    BY <2>1, <2>3, <2>4 DEF toPage
  <2> QED
    BY <2>2, <2>5
<1>7. /\ pc'[w] = "yield" /\ page'[w] = s /\ next'[w] = toPage(n)
      /\ yielded'[w] = yielded[w] /\ stayed'[w] = stayed[w] /\ UNCHANGED <<start, listing>>
  BY <1>2, <1>3 DEF Ask, IInv, ListingTypeOK
<1>8. ListingTypeOK'
  <2>1. toPage(n) \in 0..Size
    BY <1>0, <1>4, <1>6
  <2>2. page' \in [Walks -> Seq(Items)]
    BY <1>2, <1>5 DEF IInv, ListingTypeOK
  <2>3. next' \in [Walks -> 0..Size]
    BY <1>3, <2>1 DEF IInv, ListingTypeOK
  <2>4. pc' \in [Walks -> {"new", "ask", "yield", "complete", "broken", "failed"}]
        /\ UNCHANGED <<start, listing, after, yielded, stayed>>
    BY DEF Ask, IInv, ListingTypeOK
  <2> QED
    BY <2>2, <2>3, <2>4 DEF IInv, ListingTypeOK
<1>9. \A k \in DOMAIN s : s[k] \in Int /\ s[k] > after[w]
  <2>1. \A k \in DOMAIN s : s[k] \in Items
    BY <1>5
  <2> QED
    BY <1>0, <1>5, <2>1 DEF Past
<1>10. \A k \in DOMAIN yielded[w] : yielded[w][k] \in Int /\ yielded[w][k] <= after[w]
  <2>1. \A k \in DOMAIN yielded[w] : yielded[w][k] \in Items
    BY <1>0
  <2> QED
    BY <1>0, <2>1 DEF Placed, UpTo
<1>11. Placed(w)'
  <2>1. Increasing(yielded[w]) /\ Past(yielded[w], start) /\ start <= after[w]
    BY <1>0 DEF Placed
  <2>2. Past(s, start)
    BY <1>0, <1>9, <2>1 DEF Past
  <2>3. \A k \in DOMAIN s : UpTo(yielded[w], s[k] - 1)
    BY <1>0, <1>9, <1>10 DEF UpTo
  <2>4. UpTo(yielded[w], upto) /\ start <= upto
    BY <1>0, <1>4, <1>10, <2>1 DEF UpTo
  <2> QED
    BY <1>5, <1>6, <1>7, <2>1, <2>2, <2>3, <2>4 DEF Placed, Increasing, Past, UpTo
<1>12. Covered(w)'
  <2> SUFFICES ASSUME NEW i \in stayed[w] \cap Matching, i > start,
                      toPage(n) = 0 \/ i <= toPage(n)
               PROVE  Has(yielded[w], i) \/ Has(s, i)
    BY <1>0, <1>7 DEF Covered, Has
  <2>1. i \in listing \cap Matching /\ i \in Int
    BY <1>0 DEF Covered
  <2>2. i <= upto
    BY <1>4, <1>6, <2>1
  <2>3. CASE i <= after[w]
    BY <1>0, <2>3 DEF Covered
  <2>4. CASE i > after[w]
    BY <1>5, <2>1, <2>2, <2>4 DEF PageAfter
  <2> QED
    BY <1>0, <2>1, <2>3, <2>4
<1>13. \A x \in Walks \ {w} :
         /\ pc'[x] = pc[x] /\ after'[x] = after[x] /\ page'[x] = page[x]
         /\ next'[x] = next[x] /\ yielded'[x] = yielded[x] /\ stayed'[x] = stayed[x]
  BY <1>2, <1>3 DEF Ask, IInv, ListingTypeOK
<1> QED
  BY <1>7, <1>8, <1>11, <1>12, <1>13, OneWalk

\* Past the last item nothing is left to come.
LEMMA AskPastEndStep == ASSUME IInv, NEW w \in Walks, AskPastEnd(w) PROVE IInv'
<1>0. /\ start \in Nat /\ after[w] = Size /\ Size \in Nat /\ Items = 1..Size
      /\ listing \subseteq Items /\ pc[w] = "ask" /\ Placed(w) /\ Covered(w)
  BY ListingAssumption DEF AskPastEnd, IInv, ListingTypeOK, Items
<1>1. /\ pc'[w] = "yield" /\ page'[w] = <<>> /\ next'[w] = 0
      /\ yielded'[w] = yielded[w] /\ stayed'[w] = stayed[w] /\ UNCHANGED <<start, listing>>
  BY DEF AskPastEnd, IInv, ListingTypeOK
<1>2. ListingTypeOK'
  BY <1>0 DEF AskPastEnd, IInv, ListingTypeOK
<1>3. Placed(w)'
  BY <1>0, <1>1 DEF Placed, Increasing, Past, UpTo
<1>4. Covered(w)'
  <2>1. stayed[w] \subseteq listing
    BY <1>0 DEF Covered
  <2>2. \A i \in stayed[w] \cap Matching : i > start => Has(yielded[w], i)
    <3>1. \A i \in stayed[w] : i <= after[w]
      <4>1. \A i \in Items : i <= Size
        BY ListingAssumption DEF Items
      <4> QED
        BY <1>0, <2>1, <4>1
    <3> QED
      BY <1>0, <3>1 DEF Covered
  <2> QED
    BY <1>1, <2>1, <2>2 DEF Covered, Has
<1>5. \A x \in Walks \ {w} :
        /\ pc'[x] = pc[x] /\ after'[x] = after[x] /\ page'[x] = page[x]
        /\ next'[x] = next[x] /\ yielded'[x] = yielded[x] /\ stayed'[x] = stayed[x]
  BY DEF AskPastEnd, IInv, ListingTypeOK
<1> QED
  BY <1>1, <1>2, <1>3, <1>4, <1>5, OneWalk

\* An item goes from the page to the loop.
LEMMA YieldStep == ASSUME IInv, NEW w \in Walks, Yield(w) PROVE IInv'
<1>0. /\ start \in Int /\ next[w] \in Int /\ Items \subseteq Int
      /\ pc[w] = "yield" /\ page[w] # <<>> /\ Placed(w) /\ Covered(w)
      /\ yielded[w] \in Seq(Items) /\ page[w] \in Seq(Items) /\ listing \subseteq Items
  BY ListingAssumption DEF Yield, IInv, ListingTypeOK, Items
<1> DEFINE y == yielded[w]
           p == page[w]
           z == Append(y, Head(p))
           t == Tail(p)
<1>1. /\ yielded'[w] = z /\ page'[w] = t /\ pc'[w] = pc[w] /\ next'[w] = next[w]
      /\ stayed'[w] = stayed[w] /\ UNCHANGED <<start, listing>>
  BY DEF Yield, IInv, ListingTypeOK
<1>2. /\ z \in Seq(Items) /\ t \in Seq(Items)
      /\ Increasing(z) /\ Increasing(t)
      /\ \A k \in DOMAIN t : UpTo(z, t[k] - 1)
      /\ \A n \in Int : /\ UpTo(y, n) /\ UpTo(p, n) => UpTo(z, n) /\ UpTo(t, n)
                        /\ Past(y, n) /\ Past(p, n) => Past(z, n) /\ Past(t, n)
      /\ \A i \in Int : Has(y, i) \/ Has(p, i) => Has(z, i) \/ Has(t, i)
  BY <1>0, OneMore DEF Placed
<1>3. ListingTypeOK'
  BY <1>2 DEF Yield, IInv, ListingTypeOK
<1> HIDE DEF z, t
<1>4. Placed(w)'
  <2>1. Past(z, start) /\ Past(t, start)
    BY <1>0, <1>2 DEF Placed
  <2>2. next[w] # 0 => start <= next[w] /\ UpTo(z, next[w]) /\ UpTo(t, next[w])
    BY <1>0, <1>2 DEF Placed
  <2> QED
    BY <1>0, <1>1, <1>2, <2>1, <2>2 DEF Placed, Increasing, Past, UpTo
<1>5. Covered(w)'
  <2>1. \A i \in stayed[w] \cap Matching :
          i > start /\ (next[w] = 0 \/ i <= next[w]) => Has(z, i) \/ Has(t, i)
    <3>1. \A i \in stayed[w] : i \in Int
      BY <1>0 DEF Covered
    <3> QED
      BY <1>0, <1>2, <3>1 DEF Covered
  <2> QED
    BY <1>0, <1>1, <2>1 DEF Covered, Has
<1>6. \A x \in Walks \ {w} :
        /\ pc'[x] = pc[x] /\ after'[x] = after[x] /\ page'[x] = page[x]
        /\ next'[x] = next[x] /\ yielded'[x] = yielded[x] /\ stayed'[x] = stayed[x]
  BY DEF Yield, IInv, ListingTypeOK
<1> QED
  BY <1>1, <1>3, <1>4, <1>5, <1>6, OneWalk

\* The loop breaks at an item it was given.
LEMMA BreakStep == ASSUME IInv, NEW w \in Walks, Break(w) PROVE IInv'
<1>0. /\ start \in Int /\ pc[w] = "yield" /\ page[w] # <<>> /\ Placed(w) /\ Covered(w)
      /\ yielded[w] \in Seq(Items) /\ page[w] \in Seq(Items)
  BY ListingAssumption DEF Break, IInv, ListingTypeOK
<1> DEFINE z == Append(yielded[w], Head(page[w]))
<1>1. /\ yielded'[w] = z /\ pc'[w] = "broken"
      /\ stayed'[w] = stayed[w] /\ UNCHANGED <<start, listing>>
  BY DEF Break, IInv, ListingTypeOK
<1>2. z \in Seq(Items) /\ Increasing(z) /\ Past(z, start)
  BY <1>0, OneMore DEF Placed
<1>3. ListingTypeOK'
  BY <1>2 DEF Break, IInv, ListingTypeOK
<1> HIDE DEF z
<1>4. Placed(w)' /\ Covered(w)'
  BY <1>0, <1>1, <1>2 DEF Placed, Covered, Increasing, Past
<1>5. \A x \in Walks \ {w} :
        /\ pc'[x] = pc[x] /\ after'[x] = after[x] /\ page'[x] = page[x]
        /\ next'[x] = next[x] /\ yielded'[x] = yielded[x] /\ stayed'[x] = stayed[x]
  BY DEF Break, IInv, ListingTypeOK
<1> QED
  BY <1>1, <1>3, <1>4, <1>5, OneWalk

\* The cursor moves on to where the page it came with ended.
LEMMA TurnStep == ASSUME IInv, NEW w \in Walks, Turn(w) PROVE IInv'
<1>0. /\ pc[w] = "yield" /\ page[w] = <<>> /\ next[w] # 0 /\ Placed(w) /\ Covered(w)
      /\ next[w] \in 0..Size
  BY DEF Turn, IInv, ListingTypeOK
<1>1. /\ pc'[w] = "ask" /\ after'[w] = next[w] /\ yielded'[w] = yielded[w]
      /\ stayed'[w] = stayed[w] /\ UNCHANGED <<start, listing>>
  BY DEF Turn, IInv, ListingTypeOK
<1>2. ListingTypeOK'
  BY <1>0 DEF Turn, IInv, ListingTypeOK
<1>3. Placed(w)' /\ Covered(w)'
  BY <1>0, <1>1 DEF Placed, Covered, Increasing, Past, UpTo, Has
<1>4. \A x \in Walks \ {w} :
        /\ pc'[x] = pc[x] /\ after'[x] = after[x] /\ page'[x] = page[x]
        /\ next'[x] = next[x] /\ yielded'[x] = yielded[x] /\ stayed'[x] = stayed[x]
  BY DEF Turn, IInv, ListingTypeOK
<1> QED
  BY <1>1, <1>2, <1>3, <1>4, OneWalk

\* A walk is over: at its end it has everything, on an error it promises nothing.
LEMMA OverStep == ASSUME IInv, NEW w \in Walks, End(w) \/ AskFails(w) PROVE IInv'
<1>1. /\ pc[w] = "yield" /\ page[w] = <<>> /\ next[w] = 0 /\ pc'[w] = "complete"
      \/ pc'[w] = "failed"
  BY DEF End, AskFails, IInv, ListingTypeOK
<1>2. ListingTypeOK' /\ UNCHANGED <<start, listing, after, page, next, yielded, stayed>>
  BY DEF End, AskFails, IInv, ListingTypeOK
<1>3. Placed(w)' /\ Covered(w)'
  BY <1>1, <1>2 DEF IInv, Placed, Covered, Increasing, Past, Has
<1>4. \A x \in Walks \ {w} : pc'[x] = pc[x]
  BY DEF End, AskFails, IInv, ListingTypeOK
<1> QED
  BY <1>2, <1>3, <1>4, OneWalk

\* What an item that came or went leaves listed, stayed.
LEMMA ChangeStep == ASSUME IInv, NEW i \in Items, Change(i) PROVE IInv'
<1>1. ListingTypeOK'
  BY DEF Change, IInv, ListingTypeOK
<1>2. ASSUME NEW w \in Walks PROVE Placed(w)' /\ Covered(w)'
  <2>1. stayed'[w] = stayed[w] \ {i} /\ UNCHANGED <<start, pc, after, page, next, yielded>>
    BY DEF Change
  <2>2. listing \ {i} \subseteq listing'
    BY DEF Change
  <2>3. Placed(w)'
    BY <2>1 DEF IInv, Placed, Increasing, Past, UpTo
  <2>4. Covered(w)'
    BY <2>1, <2>2 DEF IInv, Covered, Has
  <2> QED
    BY <2>3, <2>4
<1> QED
  BY <1>1, <1>2 DEF IInv

LEMMA Step == IInv /\ [Next]_vars => IInv'
<1> SUFFICES ASSUME IInv, [Next]_vars PROVE IInv'
  OBVIOUS
<1>1. ASSUME NEW w \in Walks, Begin(w) \/ Walk(w) PROVE IInv'
  BY <1>1, BeginStep, AskStep, AskPastEndStep, YieldStep, BreakStep, TurnStep, OverStep
     DEF Walk
<1>2. ASSUME NEW i \in Items, Change(i) PROVE IInv'
  BY <1>2, ChangeStep
<1>3. CASE UNCHANGED vars
  BY <1>3 DEF vars, IInv, ListingTypeOK, Placed, Covered, Increasing, Has, UpTo, Past
<1> QED
  BY <1>1, <1>2, <1>3 DEF Next

-----------------------------------------------------------------------------
\* The inductive invariant of the walks: what each yielded so far is in order,
\* and all it should be up to where the walk is.
THEOREM Inductive == Spec => []IInv
BY InitIInv, Step, PTL DEF Spec

\* Every cursor and every item of a walk is one of the listing's.
THEOREM TypeCorrect == Spec => []ListingTypeOK
<1>1. IInv => ListingTypeOK
  BY DEF IInv
<1> QED
  BY Inductive, <1>1, PTL

\* Queues and Messages yield no item twice or out of order, whatever comes and
\* goes while they are walked.
THEOREM Ordered == Spec => []InOrder
<1>1. IInv => InOrder
  BY DEF IInv, Placed, InOrder, Increasing, Past
<1> QED
  BY Inductive, <1>1, PTL

\* A walk that came to its end missed nothing that was there all along.
THEOREM Complete == Spec => []NothingSkipped
<1>1. IInv => NothingSkipped
  BY DEF IInv, Covered, NothingSkipped, Has
<1> QED
  BY Inductive, <1>1, PTL
=============================================================================
