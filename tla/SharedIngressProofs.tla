------------------------- MODULE SharedIngressProofs -------------------------
(***************************************************************************)
(* Proofs about SharedIngress for any apps, ports and domains.             *)
(*                                                                         *)
(* The first part is about mergeIngressRules: what a deploy makes of any   *)
(* rules, by an induction over the rounds of its two loops.  The fold is   *)
(* taken apart into its rounds (FoldPutIs, RemoveStaleIs), and the         *)
(* induction rests on the least number of a set (LeastNumber), which the   *)
(* library's theorem on the inclusion of finite sets gives.                *)
(*                                                                         *)
(* The second part is about requests that overlap.  OverlapInv says of     *)
(* every request what it holds before its next call: above all that rules  *)
(* it made or has read have one for each host, and that an object nobody   *)
(* has written since is the one it has read.                               *)
(*                                                                         *)
(* The third part is about requests that come one at a time and what an    *)
(* earlier one has left undone when its call failed (what it states is not *)
(* true of requests that overlap).  Inv therefore says of every call what  *)
(* must have been done before it is made: Backed of certificates, Cleared  *)
(* of the cleanup of the last app, Built of the pieces of the controller.  *)
(***************************************************************************)
EXTENDS SharedIngress, FiniteSetTheorems, WellFoundedInduction, TLAPS

------------------------------------------------------------------------------
(* The merge of the rules                                                   *)

\* The least of the numbers in a set: what an induction rests on.
LEMMA LeastNumber ==
  ASSUME NEW T \in SUBSET Nat, T # {}
  PROVE  \E m \in T : \A k \in T : m <= k
<1> DEFINE W == {1..n : n \in T}
           R == StrictSubsetOrdering(Nat)
<1>1. W \subseteq FiniteSubsetsOf(Nat) /\ W # {}
  <2>1. ASSUME NEW n \in T PROVE 1..n \in SUBSET Nat /\ IsFiniteSet(1..n)
    BY FS_Interval
  <2> QED BY <2>1 DEF FiniteSubsetsOf
<1>2. PICK w \in W : \A v \in W : <<v, w>> \notin R
  <2> HIDE DEF W, R
  <2>1. IsWellFoundedOn(R, FiniteSubsetsOf(Nat))
    BY FS_StrictSubsetOrderingWellFounded DEF R
  <2> QED BY <1>1, <2>1, WFMin
<1>3. PICK m \in T : w = 1..m
  OBVIOUS
<1>4. ASSUME NEW k \in T, k < m PROVE FALSE
  <2>1. 1..k \in W /\ 1..k \subseteq 1..m /\ m \in 1..m /\ m \notin 1..k
    BY <1>4
  <2>2. <<1..k, 1..m>> \in R
    BY <2>1 DEF StrictSubsetOrdering
  <2> QED BY <1>2, <1>3, <2>1, <2>2
<1> QED BY <1>4

LEMMA UpTo ==
  ASSUME NEW n \in Nat, NEW S, 0 \in S, \A k \in 1..n : k - 1 \in S => k \in S
  PROVE  \A k \in 0..n : k \in S
<1> SUFFICES ASSUME (0..n) \ S # {} PROVE FALSE
  OBVIOUS
<1>1. PICK m \in (0..n) \ S : \A k \in (0..n) \ S : m <= k
  <2>1. (0..n) \ S \in SUBSET Nat
    OBVIOUS
  <2> QED BY <2>1, LeastNumber
<1>2. m \in 1..n /\ m - 1 \in 0..n /\ ~ m <= m - 1
  BY <1>1
<1> QED BY <1>1, <1>2

\* The two loops of the merge: over the rules of the source, and over the indices
\* of the merged rules.
Turn(loop, source, x, y) ==
  IF loop = "put" THEN Put(x, y)
  ELSE IF ~ x.panics /\ Stale(x.cells[y], source) THEN RemoveCell(x, y) ELSE x

Runs(g, loop, source, base, seq, n) ==
  g = [s \in SUBSET (1..n) |->
         IF s = {} THEN base ELSE Turn(loop, source, g[s \ {Max(s)}], seq[Max(s)])]

LEMMA MaxIs ==
  ASSUME NEW n \in Nat, NEW s \in SUBSET (1..n), n \in s
  PROVE  Max(s) = n
<1>1. \A y \in s : n >= y
  OBVIOUS
<1>2. \A x \in s : (\A y \in s : x >= y) => x = n
  OBVIOUS
<1> QED BY <1>1, <1>2, Zenon DEF Max

LEMMA LoopExists ==
  ASSUME NEW loop, NEW source, NEW base, NEW seq, NEW n \in Nat
  PROVE  \E g : Runs(g, loop, source, base, seq, n)
<1> DEFINE S == {k \in 0..n : \E g : Runs(g, loop, source, base, seq, k)}
<1>1. 0 \in S
  <2> DEFINE g == [s \in SUBSET (1..0) |-> base]
  <2>1. \A s \in SUBSET (1..0) : s = {}
    OBVIOUS
  <2>2. Runs(g, loop, source, base, seq, 0)
    BY <2>1 DEF Runs
  <2> QED BY <2>2
<1>2. ASSUME NEW k \in 1..n, k - 1 \in S PROVE k \in S
  <2>1. PICK f : Runs(f, loop, source, base, seq, k - 1)
    BY <1>2
  <2> DEFINE g == [s \in SUBSET (1..k) |->
                     IF k \in s THEN Turn(loop, source, f[s \ {k}], seq[k]) ELSE f[s]]
  <2>2. ASSUME NEW s \in SUBSET (1..k), k \in s
        PROVE  g[s] = IF s = {} THEN base ELSE Turn(loop, source, g[s \ {Max(s)}], seq[Max(s)])
    <3>1. Max(s) = k /\ s # {} /\ s \ {k} \in SUBSET (1..k) /\ k \notin s \ {k}
      BY <2>2, MaxIs
    <3>2. g[s \ {k}] = f[s \ {k}]
      BY <3>1
    <3> QED BY <2>2, <3>1, <3>2
  <2>3. ASSUME NEW s \in SUBSET (1..k), k \notin s
        PROVE  g[s] = IF s = {} THEN base ELSE Turn(loop, source, g[s \ {Max(s)}], seq[Max(s)])
    <3>1. s \in SUBSET (1..(k-1)) /\ g[s] = f[s]
      BY <2>3
    <3>2. f[s] = IF s = {} THEN base ELSE Turn(loop, source, f[s \ {Max(s)}], seq[Max(s)])
      BY <2>1, <3>1 DEF Runs
    <3>3. g[s \ {Max(s)}] = f[s \ {Max(s)}]
      BY <2>3
    <3> QED BY <3>1, <3>2, <3>3
  <2>4. Runs(g, loop, source, base, seq, k)
    <3> HIDE DEF g
    <3>1. g = [s \in SUBSET (1..k) |-> g[s]]
      BY DEF g
    <3> QED BY <2>2, <2>3, <3>1 DEF Runs
  <2> QED BY <2>4
<1>3. n \in S
  <2> HIDE DEF S
  <2> QED BY <1>1, <1>2, UpTo
<1> QED BY <1>3

\* The values a loop goes through, as a function of the turns it has made.
Turns(run, loop, source, base, seq, n) ==
  run[0] = base /\ \A k \in 1..n : run[k] = Turn(loop, source, run[k-1], seq[k])

LEMMA TurnsExist ==
  ASSUME NEW loop, NEW source, NEW base, NEW seq, NEW n \in Nat, NEW g,
         Runs(g, loop, source, base, seq, n)
  PROVE  \E run : Turns(run, loop, source, base, seq, n) /\ run[n] = g[1..n]
<1> DEFINE run == [k \in 0..n |-> g[1..k]]
<1>1. g[{}] = base
  <2>1. 1..0 \in SUBSET (1..n) /\ 1..0 = {}
    OBVIOUS
  <2> QED BY <2>1 DEF Runs
<1>2. ASSUME NEW k \in 1..n PROVE g[1..k] = Turn(loop, source, g[1..(k-1)], seq[k])
  <2>1. 1..k \in SUBSET (1..n) /\ 1..k # {} /\ k \in 1..k /\ (1..k) \ {k} = 1..(k-1)
    OBVIOUS
  <2>2. Max(1..k) = k
    BY MaxIs
  <2> QED BY <2>1, <2>2 DEF Runs
<1>3. run[0] = base /\ run[n] = g[1..n]
  <2>1. 1..0 = {}
    OBVIOUS
  <2> QED BY <1>1, <2>1
<1>4. \A k \in 1..n : run[k] = g[1..k] /\ run[k-1] = g[1..(k-1)]
  OBVIOUS
<1> HIDE DEF run
<1> QED BY <1>2, <1>3, <1>4 DEF Turns

LEMMA FoldPutIs ==
  ASSUME NEW dest, NEW source, NEW n \in Nat, DOMAIN source = 1..n
  PROVE  \E run : Turns(run, "put", source, dest, source, n) /\ PutAll(dest, source) = run[n]
<1> DEFINE Loop(g) == g = [s \in SUBSET (DOMAIN source) |->
                             IF s = {} THEN dest ELSE Put(g[s \ {Max(s)}], source[Max(s)])]
<1>1. PutAll(dest, source) = (CHOOSE g : Loop(g))[DOMAIN source]
  BY Zenon DEF PutAll, FoldLeft, MapThenFoldSet
<1>2. \A g : Loop(g) <=> Runs(g, "put", source, dest, source, n)
  BY DEF Runs, Turn
<1>3. PICK f : f = (CHOOSE g : Loop(g)) /\ Runs(f, "put", source, dest, source, n)
  <2> HIDE DEF Loop
  <2>1. \E g : Loop(g)
    BY <1>2, LoopExists
  <2>2. Loop(CHOOSE g : Loop(g))
    BY <2>1, Zenon
  <2> QED BY <1>2, <2>2, Zenon
<1>4. PutAll(dest, source) = f[1..n]
  BY <1>1, <1>3
<1> HIDE DEF Loop
<1>5. PICK run : Turns(run, "put", source, dest, source, n) /\ run[n] = f[1..n]
  <2>1. Runs(f, "put", source, dest, source, n)
    BY <1>3, Zenon
  <2> QED BY <2>1, TurnsExist
<1> QED BY <1>4, <1>5

\* The loop over the indices; the rules removed are the turns of the second loop.
LEMMA RemoveStaleIs ==
  ASSUME NEW rules, NEW source, Len(rules) \in Nat
  PROVE  \E run : /\ Turns(run, "visit", source, [cells |-> rules, len |-> Len(rules), panics |-> FALSE],
                           [i \in 1..Len(rules) |-> i], Len(rules))
                  /\ RemoveStale(rules, source) = run[Len(rules)]
<1> DEFINE base == [cells |-> rules, len |-> Len(rules), panics |-> FALSE]
           seq  == [i \in 1..Len(rules) |-> i]
           Visit(x, y) == IF ~ x.panics /\ Stale(x.cells[y], source) THEN RemoveCell(x, y) ELSE x
           Loop(g) == g = [s \in SUBSET (DOMAIN seq) |->
                             IF s = {} THEN base ELSE Visit(g[s \ {Max(s)}], seq[Max(s)])]
<1>1. RemoveStale(rules, source) = (CHOOSE g : Loop(g))[DOMAIN seq]
  BY Zenon DEF RemoveStale, FoldLeft, MapThenFoldSet
<1>2. DOMAIN seq = 1..Len(rules)
  OBVIOUS
<1>3. \A g : Loop(g) <=> Runs(g, "visit", source, base, seq, Len(rules))
  <2> HIDE DEF seq, base
  <2> QED BY <1>2 DEF Runs, Turn
<1> HIDE DEF Loop, seq, base
<1>4. PICK f : f = (CHOOSE g : Loop(g)) /\ Runs(f, "visit", source, base, seq, Len(rules))
  <2>1. \E g : Loop(g)
    BY <1>3, LoopExists
  <2>2. Loop(CHOOSE g : Loop(g))
    BY <2>1, Zenon
  <2> QED BY <1>3, <2>2, Zenon
<1>5. RemoveStale(rules, source) = f[1..Len(rules)]
  BY <1>1, <1>2, <1>4
<1>6. PICK run : Turns(run, "visit", source, base, seq, Len(rules)) /\ run[Len(rules)] = f[1..Len(rules)]
  <2>1. Runs(f, "visit", source, base, seq, Len(rules))
    BY <1>4, Zenon
  <2> QED BY <2>1, TurnsExist
<1> QED BY <1>5, <1>6 DEF base, seq

------------------------------------------------------------------------------
(* What the merge does                                                      *)

Distinct(rules) == \A i, j \in DOMAIN rules : i # j => rules[i].host # rules[j].host

\* x is among the first n cells.
Among(x, cells, n) == \E i \in 1..n : cells[i] = x

LEMMA PutIs ==
  ASSUME NEW R, NEW rules \in Seq(R), NEW r \in R
  PROVE  /\ Put(rules, r) \in Seq(R)
         /\ Distinct(rules) => Distinct(Put(rules, r))
         /\ Among(r, Put(rules, r), Len(Put(rules, r)))
         /\ \A x : Among(x, rules, Len(rules)) /\ x.host # r.host
                     => Among(x, Put(rules, r), Len(Put(rules, r)))
<1> DEFINE new == Put(rules, r)
           I == {i \in 1..Len(rules) : rules[i].host = r.host}
<1>1. CASE r.host \in Hosts(rules)
  <2>1. I # {} /\ I \in SUBSET Nat
    BY <1>1 DEF Hosts
  <2>2. PICK i \in I : \A k \in I : i <= k
    <3> HIDE DEF I
    <3> QED BY <2>1, LeastNumber
  <2>3. Min(I) \in I
    <3> HIDE DEF I
    <3> QED BY <2>2, Zenon DEF Min
  <2>4. SelectInSeq(rules, LAMBDA rr : rr.host = r.host) = Min(I)
    BY <2>1, Zenon DEF SelectInSeq
  <2>5. PICK m \in 1..Len(rules) : rules[m].host = r.host /\ new = [rules EXCEPT ![m] = r]
    BY <1>1, <2>3, <2>4 DEF Put
  <2> HIDE DEF new, I
  <2>6. new \in Seq(R) /\ Len(new) = Len(rules) /\ new[m] = r
        /\ \A k \in 1..Len(rules) : k # m => new[k] = rules[k]
    BY <2>5
  <2>7. Distinct(rules) => Distinct(new)
    BY <2>5, <2>6 DEF Distinct
  <2>8. Among(r, new, Len(new))
    BY <2>6 DEF Among
  <2>9. ASSUME NEW x, Among(x, rules, Len(rules)), x.host # r.host PROVE Among(x, new, Len(new))
    BY <2>5, <2>6, <2>9 DEF Among
  <2> QED BY <2>6, <2>7, <2>8, <2>9 DEF new
<1>2. CASE r.host \notin Hosts(rules)
  <2>1. new = Append(rules, r)
    BY <1>2 DEF Put
  <2> HIDE DEF new
  <2>2. new \in Seq(R) /\ Len(new) = Len(rules) + 1 /\ new[Len(rules) + 1] = r
        /\ \A k \in 1..Len(rules) : new[k] = rules[k]
    BY <2>1
  <2>3. \A k \in 1..Len(rules) : rules[k].host # r.host
    BY <1>2 DEF Hosts
  <2>4. Distinct(rules) => Distinct(new)
    BY <2>2, <2>3 DEF Distinct
  <2>5. Among(r, new, Len(new))
    BY <2>2 DEF Among
  <2>6. ASSUME NEW x, Among(x, rules, Len(rules)) PROVE Among(x, new, Len(new))
    BY <2>2, <2>6 DEF Among
  <2> QED BY <2>2, <2>4, <2>5, <2>6 DEF new
<1> QED BY <1>1, <1>2

\* The loop that puts the rules of the source.
LEMMA PutAllIs ==
  ASSUME NEW R, NEW dest \in Seq(R), NEW source \in Seq(R)
  PROVE  LET new == PutAll(dest, source) IN
         /\ new \in Seq(R)
         /\ Distinct(dest) => Distinct(new)
         /\ Distinct(source) => \A i \in DOMAIN source : Among(source[i], new, Len(new))
         /\ \A x : Among(x, dest, Len(dest)) /\ x.host \notin Hosts(source) => Among(x, new, Len(new))
<1> DEFINE n == Len(source)
<1>1. n \in Nat /\ DOMAIN source = 1..n /\ \A k \in 1..n : source[k] \in R
  OBVIOUS
<1> HIDE DEF n
<1>2. PICK run : Turns(run, "put", source, dest, source, n) /\ PutAll(dest, source) = run[n]
  BY <1>1, FoldPutIs
<1> DEFINE Good(rules, k) ==
             /\ rules \in Seq(R)
             /\ Distinct(dest) => Distinct(rules)
             /\ Distinct(source) => \A i \in 1..k : Among(source[i], rules, Len(rules))
             /\ \A x : Among(x, dest, Len(dest)) /\ x.host \notin Hosts(source)
                         => Among(x, rules, Len(rules))
           S == {k \in 0..n : Good(run[k], k)}
<1>3. 0 \in S
  BY <1>1, <1>2 DEF Turns
<1>4. ASSUME NEW k \in 1..n, k - 1 \in S PROVE k \in S
  <2> DEFINE old == run[k-1]
             new == run[k]
             r   == source[k]
  <2>1. Good(old, k - 1) /\ new = Put(old, r) /\ r \in R
    BY <1>1, <1>2, <1>4 DEF Turns, Turn
  <2>2. r.host \in Hosts(source)
    BY <1>1 DEF Hosts
  <2>3. Distinct(source) => \A i \in 1..(k-1) : source[i].host # r.host
    BY <1>1 DEF Distinct
  <2> HIDE DEF old, new, r
  <2>4. /\ new \in Seq(R)
        /\ Distinct(old) => Distinct(new)
        /\ Among(r, new, Len(new))
        /\ \A x : Among(x, old, Len(old)) /\ x.host # r.host => Among(x, new, Len(new))
    BY <2>1, PutIs
  <2>5. ASSUME Distinct(source), NEW i \in 1..k PROVE Among(source[i], new, Len(new))
    <3>1. CASE i = k
      BY <2>4, <3>1 DEF r
    <3>2. CASE i \in 1..(k-1)
      BY <2>1, <2>3, <2>4, <2>5, <3>2
    <3> QED BY <3>1, <3>2
  <2>6. Good(new, k)
    BY <2>1, <2>2, <2>4, <2>5
  <2> QED BY <2>6 DEF new
<1>5. n \in S
  <2> HIDE DEF S
  <2>1. n \in 0..n
    BY <1>1
  <2> QED BY <1>1, <1>3, <1>4, <2>1, UpTo
<1> QED BY <1>1, <1>2, <1>5

Slices(R, n) == [cells : [1..n -> R], len : 0..n, panics : BOOLEAN]

Apart(cells, n) == \A i, j \in 1..n : i # j => cells[i].host # cells[j].host

\* Removing a cell keeps the others, in their order.
LEMMA RemoveCellIs ==
  ASSUME NEW R, NEW n \in Nat, NEW slice \in Slices(R, n), NEW i \in 1..n
  PROVE  LET new == RemoveCell(slice, i) IN
         /\ new \in Slices(R, n)
         /\ Apart(slice.cells, slice.len) => Apart(new.cells, new.len)
         /\ \A x : Among(x, slice.cells, slice.len) /\ x # slice.cells[i] => Among(x, new.cells, new.len)
<1> DEFINE new == RemoveCell(slice, i)
<1>0. slice.cells \in [1..n -> R] /\ slice.len \in 0..n
  BY DEF Slices
<1>1. CASE i > slice.len
  <2>1. new \in Slices(R, n) /\ new.cells = slice.cells /\ new.len = slice.len
    BY <1>1 DEF RemoveCell, Slices
  <2> HIDE DEF new
  <2> QED BY <2>1 DEF new
<1>2. CASE i <= slice.len
  <2> DEFINE len   == slice.len - 1
             cells == [k \in 1..n |-> IF k \in i..len THEN slice.cells[k + 1] ELSE slice.cells[k]]
  <2>1. new = [slice EXCEPT !.len = len, !.cells = cells]
    <3>1. ~ i > slice.len /\ DOMAIN slice.cells = 1..n
      BY <1>0, <1>2
    <3> QED BY <3>1 DEF RemoveCell
  <2>2. len \in 0..n /\ cells \in [1..n -> R]
    BY <1>0, <1>2
  <2>3. \A k \in 1..len : cells[k] = IF k < i THEN slice.cells[k] ELSE slice.cells[k + 1]
    BY <1>0, <1>2
  <2>4. len = slice.len - 1
    OBVIOUS
  <2> HIDE DEF len, cells, new
  <2>5. new \in Slices(R, n) /\ new.cells = cells /\ new.len = len
    BY <2>1, <2>2 DEF Slices
  <2>6. Apart(slice.cells, slice.len) => Apart(cells, len)
    <3> DEFINE was(k) == IF k < i THEN k ELSE k + 1
    <3>1. \A k \in 1..len : was(k) \in 1..slice.len /\ cells[k] = slice.cells[was(k)]
      BY <1>0, <2>3, <2>4
    <3>2. \A j, k \in 1..len : j # k => was(j) # was(k)
      BY <1>0, <2>4
    <3> HIDE DEF was
    <3> QED BY <3>1, <3>2 DEF Apart
  <2>7. ASSUME NEW x, Among(x, slice.cells, slice.len), x # slice.cells[i] PROVE Among(x, cells, len)
    <3>1. PICK k \in 1..slice.len : slice.cells[k] = x /\ k # i
      BY <2>7 DEF Among
    <3>2. CASE k < i
      BY <1>0, <1>2, <2>3, <2>4, <3>1, <3>2 DEF Among
    <3>3. CASE k > i
      <4>1. k - 1 \in 1..len /\ ~ (k - 1 < i) /\ (k - 1) + 1 = k
        BY <1>0, <2>4, <3>1, <3>3
      <4> QED BY <2>3, <3>1, <4>1 DEF Among
    <3> QED BY <1>0, <3>1, <3>2, <3>3
  <2> QED BY <2>5, <2>6, <2>7 DEF new
<1> QED BY <1>0, <1>1, <1>2

\* The loop that removes stale rules removes no other.
LEMMA RemoveStaleKeeps ==
  ASSUME NEW R, NEW rules \in Seq(R), NEW source
  PROVE  LET slice == RemoveStale(rules, source) IN
         /\ slice \in Slices(R, Len(rules))
         /\ Distinct(rules) => Apart(slice.cells, slice.len)
         /\ \A x : Among(x, rules, Len(rules)) /\ ~ Stale(x, source) => Among(x, slice.cells, slice.len)
<1> DEFINE n    == Len(rules)
           base == [cells |-> rules, len |-> n, panics |-> FALSE]
           seq  == [i \in 1..n |-> i]
<1>1. n \in Nat /\ DOMAIN rules = 1..n /\ rules \in [1..n -> R] /\ \A k \in 1..n : seq[k] = k
  OBVIOUS
<1>2. PICK run : Turns(run, "visit", source, base, seq, n) /\ RemoveStale(rules, source) = run[n]
  BY <1>1, RemoveStaleIs
<1> DEFINE Good(slice) ==
             /\ slice \in Slices(R, n)
             /\ Distinct(rules) => Apart(slice.cells, slice.len)
             /\ \A x : Among(x, rules, n) /\ ~ Stale(x, source) => Among(x, slice.cells, slice.len)
           S == {k \in 0..n : Good(run[k])}
<1>3. Good(base)
  <2>1. base \in Slices(R, n)
    BY <1>1 DEF Slices
  <2>2. Distinct(rules) => Apart(rules, n)
    BY <1>1 DEF Distinct, Apart
  <2> QED BY <2>1, <2>2
<1> HIDE DEF base, seq, n
<1>4. 0 \in S
  BY <1>1, <1>2, <1>3 DEF Turns
<1>5. ASSUME NEW k \in 1..n, k - 1 \in S PROVE k \in S
  <2> DEFINE old == run[k-1]
  <2>1. /\ Good(old)
        /\ run[k] = IF ~ old.panics /\ Stale(old.cells[k], source) THEN RemoveCell(old, k) ELSE old
    BY <1>1, <1>2, <1>5 DEF Turns, Turn
  <2> HIDE DEF old
  <2>2. CASE run[k] = old
    BY <2>1, <2>2
  <2>3. CASE run[k] = RemoveCell(old, k) /\ Stale(old.cells[k], source)
    <3>1. /\ RemoveCell(old, k) \in Slices(R, n)
          /\ Apart(old.cells, old.len) => Apart(RemoveCell(old, k).cells, RemoveCell(old, k).len)
          /\ \A x : Among(x, old.cells, old.len) /\ x # old.cells[k]
                      => Among(x, RemoveCell(old, k).cells, RemoveCell(old, k).len)
      BY <1>1, <2>1, RemoveCellIs
    <3> QED BY <2>1, <2>3, <3>1
  <2> QED BY <2>1, <2>2, <2>3
<1>6. n \in S
  <2> HIDE DEF S
  <2>1. n \in 0..n
    BY <1>1
  <2> QED BY <1>1, <1>4, <1>5, <2>1, UpTo
<1> QED BY <1>2, <1>6 DEF n

LEMMA CellsAreSeq ==
  ASSUME NEW R, NEW m \in Nat, NEW cells \in [1..m -> R]
  PROVE  cells \in Seq(R) /\ Len(cells) = m
  OBVIOUS

\* What a deploy makes of the rules the object has and its own: at most one rule
\* for a host, its own rules, and every rule that is not stale and for another host.
LEMMA MergeIs ==
  ASSUME NEW R, NEW dest \in Seq(R), NEW source \in Seq(R)
  PROVE  LET new == MergeIngressRules(dest, source).rules IN
         /\ new \in Seq(R)
         /\ Distinct(dest) => Distinct(new)
         /\ Distinct(source) => ToSet(source) \subseteq ToSet(new)
         /\ \A x \in ToSet(dest) : x.host \notin Hosts(source) /\ x.backend \notin BackendsOf(source)
                                     => x \in ToSet(new)
<1> DEFINE all   == PutAll(dest, source)
           slice == RemoveStale(all, source)
           new   == SubSeq(slice.cells, 1, slice.len)
<1>1. /\ all \in Seq(R)
      /\ Distinct(dest) => Distinct(all)
      /\ Distinct(source) => \A i \in DOMAIN source : Among(source[i], all, Len(all))
      /\ \A x : Among(x, dest, Len(dest)) /\ x.host \notin Hosts(source) => Among(x, all, Len(all))
  BY PutAllIs
<1>2. /\ slice \in Slices(R, Len(all))
      /\ Distinct(all) => Apart(slice.cells, slice.len)
      /\ \A x : Among(x, all, Len(all)) /\ ~ Stale(x, source) => Among(x, slice.cells, slice.len)
  <2> HIDE DEF all
  <2> QED BY <1>1, RemoveStaleKeeps
<1>3. MergeIngressRules(dest, source).rules = new
  BY DEF MergeIngressRules
<1> HIDE DEF all, slice
<1>4. /\ new \in Seq(R) /\ Len(new) = slice.len /\ DOMAIN new = 1..slice.len
      /\ \A k \in 1..slice.len : new[k] = slice.cells[k]
  <2>1. slice.cells \in [1..Len(all) -> R] /\ slice.len \in 0..Len(all) /\ Len(all) \in Nat
    BY <1>1, <1>2 DEF Slices
  <2>2. Len(all) \in Nat /\ slice.cells \in [1..Len(all) -> R]
    BY <2>1, Zenon
  <2>3. slice.cells \in Seq(R) /\ Len(slice.cells) = Len(all)
    BY <2>2, CellsAreSeq
  <2> QED BY <2>1, <2>3
<1> HIDE DEF new
<1>5. \A x : Among(x, slice.cells, slice.len) => x \in ToSet(new)
  BY <1>4 DEF Among, ToSet
<1>6. Distinct(dest) => Distinct(new)
  BY <1>1, <1>2, <1>4 DEF Apart, Distinct
<1>7. ASSUME Distinct(source), NEW i \in DOMAIN source PROVE source[i] \in ToSet(new)
  <2>1. ~ Stale(source[i], source)
    BY DEF Stale, Hosts
  <2> QED BY <1>1, <1>2, <1>5, <1>7, <2>1
<1>8. ASSUME NEW x \in ToSet(dest), x.host \notin Hosts(source), x.backend \notin BackendsOf(source)
      PROVE  x \in ToSet(new)
  <2>1. Among(x, dest, Len(dest)) /\ ~ Stale(x, source)
    BY <1>8 DEF Among, ToSet, Stale
  <2> QED BY <1>1, <1>2, <1>5, <1>8, <2>1
<1>9. Distinct(source) => ToSet(source) \subseteq ToSet(new)
  BY <1>7 DEF ToSet
<1> QED BY <1>3, <1>4, <1>6, <1>8, <1>9

------------------------------------------------------------------------------
(* Requests that overlap                                                    *)

CertCalls == {"getForCert", "putSecret", "putCert", "getForUncert", "dropCert", "dropSecret"}

\* A host has one rule and one certificate.
Unique(ing) ==
  ing # None => Distinct(ing.rules) /\ \A s, t \in ing.tls : s.host = t.host => s = t

\* What a request holds before a call: its arguments, the object it has read, and
\* rules of its own app only, one for each host.
Holds(call, j) ==
  /\ j \in Job
  /\ call # "idle" => j.app \in Apps
  /\ call \in CertCalls => j.domain \in Domains
  /\ call \in {"putSecret", "putCert", "dropCert"} => j.copy # None
  /\ Distinct(j.source)
  /\ \A i \in DOMAIN j.source : j.source[i].backend.app = j.app
  /\ Unique(j.copy)

\* An object that nobody has written since is the one that was read.
Copied == \A h \in Handlers : job[h].fresh = TRUE => job[h].copy = ingress

PlatformOK ==
  /\ provider \in Providers
  /\ controller \subseteq Pieces
  /\ asleep \subseteq controller \cap Deployments
  /\ services \subseteq Apps
  /\ secrets \subseteq Apps \X Domains

ObjectOK == ingress \in Ingress \cup {None} /\ Unique(ingress)

JobsOK ==
  /\ pc \in [Handlers -> Calls]
  /\ job \in [Handlers -> Job]
  /\ \A h \in Handlers : Holds(pc[h], job[h])

OverlapInv == PlatformOK /\ ObjectOK /\ JobsOK /\ Copied

LEMMA NoJobHolds == Holds("idle", NoJob) /\ NoJob.fresh = FALSE
<1>1. NoJob \in Job
  BY DEF NoJob, Job
<1>2. NoJob.source = <<>> /\ NoJob.copy = None /\ NoJob.fresh = FALSE
  BY DEF NoJob
<1> QED BY <1>1, <1>2 DEF Holds, Distinct, Unique, CertCalls

\* A job in which the object is read, or known to be stale.
LEMMA JobKept ==
  ASSUME NEW j \in Job, NEW copy \in Ingress \cup {None}
  PROVE  /\ [j EXCEPT !.copy = copy, !.fresh = TRUE] \in Job
         /\ [j EXCEPT !.copy = copy, !.fresh = TRUE].copy = copy
         /\ [j EXCEPT !.copy = copy, !.fresh = TRUE].source = j.source
         /\ [j EXCEPT !.copy = copy, !.fresh = TRUE].app = j.app
         /\ [j EXCEPT !.copy = copy, !.fresh = TRUE].domain = j.domain
         /\ [j EXCEPT !.fresh = FALSE] \in Job
         /\ [j EXCEPT !.fresh = FALSE].copy = j.copy
         /\ [j EXCEPT !.fresh = FALSE].source = j.source
         /\ [j EXCEPT !.fresh = FALSE].app = j.app
         /\ [j EXCEPT !.fresh = FALSE].domain = j.domain
         /\ [j EXCEPT !.fresh = FALSE].fresh = FALSE
<1>1. [j EXCEPT !.copy = copy, !.fresh = TRUE] \in Job
  BY DEF Job
<1>2. [j EXCEPT !.fresh = FALSE] \in Job
  BY DEF Job
<1> QED BY <1>1, <1>2 DEF Job

LEMMA StaleHolds ==
  ASSUME NEW call, NEW j, Holds(call, j)
  PROVE  Holds(call, [j EXCEPT !.fresh = FALSE]) /\ [j EXCEPT !.fresh = FALSE].fresh = FALSE
<1> DEFINE g == [j EXCEPT !.fresh = FALSE]
<1>1. g \in Job /\ g.copy = j.copy /\ g.source = j.source /\ g.app = j.app /\ g.domain = j.domain
      /\ g.fresh = FALSE
  BY JobKept DEF Holds
<1> HIDE DEF g
<1>2. Holds(call, g) /\ g.fresh = FALSE
  BY <1>1 DEF Holds
<1> QED BY <1>2 DEF g

\* A request goes on with another call, and the object is left alone.
LEMMA GotoHolds ==
  ASSUME OverlapInv, NEW h \in Handlers, NEW call \in Calls, NEW j, Goto(h, call, j), UNCHANGED ingress,
         Holds(call, j), j.fresh = TRUE => j.copy = ingress
  PROVE  ObjectOK' /\ JobsOK' /\ Copied'
<1>1. PICK g : Holds(call, g) /\ (g.fresh = TRUE => g.copy = ingress) /\ job' = [job EXCEPT ![h] = g]
  BY NoJobHolds DEF Goto
<1>2. pc' = [pc EXCEPT ![h] = call]
  BY DEF Goto
<1>3. g \in Job
  BY <1>1 DEF Holds
<1>4. pc' \in [Handlers -> Calls] /\ job' \in [Handlers -> Job]
  BY <1>1, <1>2, <1>3 DEF OverlapInv, JobsOK
<1>5. \A k \in Handlers : Holds(pc'[k], job'[k]) /\ (job'[k].fresh = TRUE => job'[k].copy = ingress)
  BY <1>1, <1>2 DEF OverlapInv, JobsOK, Copied
<1>6. JobsOK' /\ Copied'
  BY <1>4, <1>5 DEF JobsOK, Copied
<1> QED BY <1>6 DEF OverlapInv, ObjectOK

LEMMA ReturnHolds ==
  ASSUME OverlapInv, NEW h \in Handlers, Return(h), UNCHANGED ingress
  PROVE  ObjectOK' /\ JobsOK' /\ Copied'
<1>1. Goto(h, "idle", NoJob) /\ "idle" \in Calls
  BY DEF Return, Calls
<1> QED BY <1>1, NoJobHolds, GotoHolds

\* The object is written, and what the others have read is stale.
LEMMA WriteHolds ==
  ASSUME OverlapInv, NEW h \in Handlers, NEW new \in Ingress \cup {None}, Unique(new),
         NEW call \in Calls, Write(h, new, call),
         call \in {"idle", "removeController"} \/ (call = "dropSecret" /\ pc[h] \in CertCalls),
         pc[h] # "idle"
  PROVE  ObjectOK' /\ JobsOK' /\ Copied'
<1>1. \A k \in Handlers : Holds(pc[k], job[k]) /\ (job[k].fresh = TRUE => job[k].copy = ingress)
  BY DEF OverlapInv, JobsOK, Copied
<1>2. pc' \in [Handlers -> Calls] /\ pc'[h] = call /\ \A k \in Handlers \ {h} : pc'[k] = pc[k]
  BY DEF Write, OverlapInv, JobsOK
<1>3. Holds(call, job'[h]) /\ job'[h].fresh = FALSE
  <2>1. CASE call = "idle"
    BY <2>1, NoJobHolds DEF Write
  <2>2. CASE call # "idle"
    <3>1. job'[h] = [job[h] EXCEPT !.fresh = FALSE]
      BY <2>2 DEF Write
    <3>2. Holds(call, job[h])
      BY <1>1 DEF Holds, CertCalls
    <3> QED BY <3>1, <3>2, StaleHolds
  <2> QED BY <2>1, <2>2
<1>4. ASSUME NEW k \in Handlers \ {h}
      PROVE  Holds(pc'[k], job'[k]) /\ (job'[k].fresh = TRUE => job'[k].copy = new)
  <2>1. CASE new = ingress
    <3>1. job'[k] = job[k]
      BY <2>1 DEF Write
    <3> QED BY <1>1, <1>2, <2>1, <3>1
  <2>2. CASE new # ingress
    <3>1. job'[k] = [job[k] EXCEPT !.fresh = FALSE]
      BY <2>2 DEF Write
    <3>2. Holds(pc[k], [job[k] EXCEPT !.fresh = FALSE]) /\ [job[k] EXCEPT !.fresh = FALSE].fresh = FALSE
      BY <1>1, StaleHolds
    <3> QED BY <1>2, <3>1, <3>2
  <2> QED BY <2>1, <2>2
<1>5. \A k \in Handlers : Holds(pc'[k], job'[k]) /\ (job'[k].fresh = TRUE => job'[k].copy = new)
  BY <1>2, <1>3, <1>4
<1>6. DOMAIN job' = Handlers /\ ingress' = new /\ job' = [k \in Handlers |-> job'[k]]
  BY DEF Write
<1>7. job' \in [Handlers -> Job]
  BY <1>5, <1>6 DEF Holds
<1> QED BY <1>2, <1>5, <1>6, <1>7 DEF ObjectOK, JobsOK, Copied

\* A deploy begins with the rules it has made.
DeployJob(a, source) == [NoJob EXCEPT !.app = a, !.source = source]

LEMMA DeployJobIs ==
  ASSUME NEW a \in Apps, NEW source \in Seq(Rule)
  PROVE  /\ DeployJob(a, source) \in Job
         /\ DeployJob(a, source).app = a
         /\ DeployJob(a, source).source = source
         /\ DeployJob(a, source).copy = None
         /\ DeployJob(a, source).fresh = FALSE
<1>1. DeployJob(a, source) \in Job
  BY DEF NoJob, Job, DeployJob
<1>2. /\ DeployJob(a, source).app = a
      /\ DeployJob(a, source).source = source
      /\ DeployJob(a, source).copy = None
      /\ DeployJob(a, source).fresh = FALSE
  BY DEF NoJob, DeployJob
<1> QED BY <1>1, <1>2

\* A request about a certificate begins with its domain.
CertJob(a, d) == [NoJob EXCEPT !.app = a, !.domain = d]

LEMMA CertJobIs ==
  ASSUME NEW a \in Apps, NEW d \in Domains
  PROVE  /\ CertJob(a, d) \in Job
         /\ CertJob(a, d).app = a
         /\ CertJob(a, d).domain = d
         /\ CertJob(a, d).source = <<>>
         /\ CertJob(a, d).copy = None
         /\ CertJob(a, d).fresh = FALSE
<1>1. CertJob(a, d) \in Job
  BY NoJobHolds DEF Holds, Job, CertJob
<1>2. /\ CertJob(a, d).app = a
      /\ CertJob(a, d).domain = d
      /\ CertJob(a, d).source = <<>>
      /\ CertJob(a, d).copy = None
      /\ CertJob(a, d).fresh = FALSE
  BY DEF NoJob, CertJob
<1> QED BY <1>1, <1>2

\* The cleanup of an app begins with no more than its name.
CleanupJob(a) == [NoJob EXCEPT !.app = a]

LEMMA CleanupJobIs ==
  ASSUME NEW a \in Apps
  PROVE  /\ CleanupJob(a) \in Job
         /\ CleanupJob(a).app = a
         /\ CleanupJob(a).source = <<>>
         /\ CleanupJob(a).copy = None
         /\ CleanupJob(a).fresh = FALSE
<1>1. CleanupJob(a) \in Job
  BY NoJobHolds DEF Holds, Job, CleanupJob
<1>2. /\ CleanupJob(a).app = a
      /\ CleanupJob(a).source = <<>>
      /\ CleanupJob(a).copy = None
      /\ CleanupJob(a).fresh = FALSE
  BY DEF NoJob, CleanupJob
<1> QED BY <1>1, <1>2

LEMMA DeployHolds ==
  ASSUME OverlapInv, NEW h \in Handlers, NEW a \in Apps, NEW p \in Ports, NEW ds \in DomainLists,
         Deploy(h, a, p, ds)
  PROVE  OverlapInv'
<1> DEFINE source == ingressRulesManifest([app |-> a, port |-> p], ds)
           j      == DeployJob(a, source)
<1>1. PICK n \in Nat : ds \in [1..n -> Domains] /\ \A i, k \in DOMAIN ds : i # k => ds[i] # ds[k]
  BY NoneAssumption DEF DomainLists
<1>2. DOMAIN source = 1..n
      /\ \A i \in 1..n : source[i] = [host |-> ds[i], backend |-> [app |-> a, port |-> p]]
  BY <1>1 DEF ingressRulesManifest
<1>3. \A i \in 1..n : source[i] \in Rule /\ source[i].host = ds[i] /\ source[i].backend.app = a
  <2>1. [app |-> a, port |-> p] \in Backend
    BY DEF Backend
  <2>2. ASSUME NEW d \in Domains, NEW b \in Backend PROVE [host |-> d, backend |-> b] \in Rule
    BY DEF Rule
  <2>3. \A i \in 1..n : ds[i] \in Domains
    BY <1>1
  <2>4. \A i \in 1..n : /\ source[i].host = ds[i] /\ source[i].backend.app = a
                        /\ source[i] \in Rule
    <3> HIDE DEF source
    <3> TAKE i \in 1..n
    <3>1. source[i] = [host |-> ds[i], backend |-> [app |-> a, port |-> p]]
      BY <1>2
    <3>2. source[i] \in Rule
      BY <2>1, <2>2, <2>3, <3>1
    <3> QED BY <3>1, <3>2
  <2> QED BY <2>4
<1>4. source \in Seq(Rule)
  <2>1. source \in [1..n -> Rule]
    BY <1>2, <1>3 DEF ingressRulesManifest
  <2> HIDE DEF source
  <2> QED BY <2>1, CellsAreSeq
<1>5. Distinct(source)
  BY <1>1, <1>2, <1>3 DEF Distinct
<1> HIDE DEF source
<1>6. j \in Job /\ j.app = a /\ j.source = source /\ j.copy = None /\ j.fresh = FALSE
  BY <1>4, DeployJobIs
<1>7. Goto(h, "service", j) /\ UNCHANGED cluster
  BY DEF Deploy, DeployJob, source
<1> HIDE DEF j
<1>8. Holds("service", j)
  BY <1>2, <1>3, <1>5, <1>6 DEF Holds, Unique, CertCalls
<1>9. ObjectOK' /\ JobsOK' /\ Copied'
  BY <1>6, <1>7, <1>8, GotoHolds DEF cluster, Calls
<1> QED BY <1>7, <1>9 DEF OverlapInv, PlatformOK, cluster, platform

\* A request about a certificate, or the cleanup of an app, arrives.
LEMMA ArriveHolds ==
  ASSUME OverlapInv, NEW h \in Handlers, NEW a \in Apps,
         \/ \E d \in CertDomains : CertificateSet(h, a, d) \/ CertificateDelete(h, a, d)
         \/ DeleteApp(h, a)
  PROVE  OverlapInv'
<1>1. ASSUME NEW d \in Domains, NEW call \in {"getForCert", "getForUncert"},
             Goto(h, call, CertJob(a, d)), UNCHANGED cluster
      PROVE  OverlapInv'
  <2> DEFINE j == CertJob(a, d)
  <2>1. /\ j \in Job /\ j.app = a /\ j.domain = d /\ j.source = <<>> /\ j.copy = None
        /\ j.fresh = FALSE
    BY CertJobIs
  <2>2. Goto(h, call, j)
    BY <1>1
  <2> HIDE DEF j
  <2>3. Holds(call, j)
    BY <2>1 DEF Holds, Unique, Distinct
  <2>4. ObjectOK' /\ JobsOK' /\ Copied'
    BY <1>1, <2>1, <2>2, <2>3, GotoHolds DEF cluster, Calls
  <2> QED BY <1>1, <2>4 DEF OverlapInv, PlatformOK, cluster, platform
<1>2. CASE DeleteApp(h, a)
  <2> DEFINE j == CleanupJob(a)
  <2>1. j \in Job /\ j.app = a /\ j.source = <<>> /\ j.copy = None /\ j.fresh = FALSE
    BY CleanupJobIs
  <2>2. Goto(h, "unserve", j) /\ UNCHANGED cluster
    BY <1>2 DEF DeleteApp, CleanupJob
  <2> HIDE DEF j
  <2>3. Holds("unserve", j)
    BY <2>1 DEF Holds, Unique, Distinct, CertCalls
  <2>4. ObjectOK' /\ JobsOK' /\ Copied'
    BY <2>1, <2>2, <2>3, GotoHolds DEF cluster, Calls
  <2> QED BY <2>2, <2>4 DEF OverlapInv, PlatformOK, cluster, platform
<1> QED BY <1>1, <1>2, NoneAssumption DEF CertificateSet, CertificateDelete, CertJob

\* The job of a request is good for another call that needs no more than the last.
LEMMA OnHolds ==
  ASSUME OverlapInv, NEW h \in Handlers, pc[h] # "idle", NEW call \in Calls, Goto(h, call, job[h]),
         UNCHANGED ingress,
         call \in CertCalls => pc[h] \in CertCalls,
         call \in {"putSecret", "putCert", "dropCert"} => pc[h] \in {"putSecret", "putCert", "dropCert"}
  PROVE  ObjectOK' /\ JobsOK' /\ Copied'
<1>1. Holds(call, job[h]) /\ (job[h].fresh = TRUE => job[h].copy = ingress)
  BY DEF OverlapInv, JobsOK, Copied, Holds
<1> QED BY <1>1, GotoHolds

LEMMA ReadHolds ==
  ASSUME OverlapInv, NEW h \in Handlers, pc[h] # "idle", NEW call \in Calls, Goto(h, call, Read(h)),
         UNCHANGED ingress,
         call \in CertCalls => pc[h] \in CertCalls,
         call \in {"putSecret", "putCert", "dropCert"} => ingress # None
  PROVE  ObjectOK' /\ JobsOK' /\ Copied'
<1>1. Holds(pc[h], job[h]) /\ job[h] \in Job /\ ingress \in Ingress \cup {None} /\ Unique(ingress)
  BY DEF OverlapInv, ObjectOK, JobsOK
<1> DEFINE j == Read(h)
<1>2. /\ j \in Job /\ j.copy = ingress /\ j.source = job[h].source /\ j.app = job[h].app
      /\ j.domain = job[h].domain
  BY <1>1, JobKept DEF Read
<1>3. Goto(h, call, j)
  OBVIOUS
<1> HIDE DEF j
<1>4. Holds(call, j)
  BY <1>1, <1>2 DEF Holds
<1> QED BY <1>2, <1>3, <1>4, GotoHolds

LEMMA PiecesAre ==
  /\ Pieces = ToSet(RBACRoles) \cup ToSet(DefaultBackend) \cup ToSet(IngressController)
  /\ \A n \in 0..Len(RBACRoles) : ToSet(SubSeq(RBACRoles, 1, n)) \subseteq ToSet(RBACRoles)
  /\ \A n \in 0..Len(DefaultBackend) : ToSet(SubSeq(DefaultBackend, 1, n)) \subseteq ToSet(DefaultBackend)
  /\ \A n \in 0..Len(IngressController) :
       ToSet(SubSeq(IngressController, 1, n)) \subseteq ToSet(IngressController)
  /\ \E S : RBACRoles \in Seq(S) /\ DefaultBackend \in Seq(S) /\ IngressController \in Seq(S)
<1>1. ASSUME NEW S, NEW q \in Seq(S), NEW n \in 0..Len(q)
      PROVE  ToSet(SubSeq(q, 1, n)) \subseteq ToSet(q)
  BY <1>1 DEF ToSet
<1>2. ASSUME NEW S, NEW q \in Seq(S), NEW r \in Seq(S)
      PROVE  ToSet(q \o r) = ToSet(q) \cup ToSet(r)
  <2>1. ToSet(q \o r) \subseteq ToSet(q) \cup ToSet(r)
    BY <1>2 DEF ToSet
  <2>2. \A i \in DOMAIN q : i \in DOMAIN (q \o r) /\ (q \o r)[i] = q[i]
    BY <1>2
  <2>3. \A i \in DOMAIN r : i + Len(q) \in DOMAIN (q \o r) /\ (q \o r)[i + Len(q)] = r[i]
    BY <1>2
  <2>4. ToSet(q) \subseteq ToSet(q \o r)
    BY <2>2 DEF ToSet
  <2>5. ToSet(r) \subseteq ToSet(q \o r)
    BY <2>3 DEF ToSet
  <2> QED BY <2>1, <2>4, <2>5
<1>3. /\ RBACRoles \in Seq({"rbac"}) /\ DefaultBackend \in Seq({"backendDeployment", "backendService"})
      /\ IngressController \in Seq({"configMap", "controllerService", "controllerDeployment"})
  BY DEF RBACRoles, DefaultBackend, IngressController
<1> DEFINE S == {"rbac", "backendDeployment", "backendService", "configMap", "controllerService",
                 "controllerDeployment"}
<1>4. RBACRoles \in Seq(S) /\ DefaultBackend \in Seq(S) /\ IngressController \in Seq(S)
  BY DEF RBACRoles, DefaultBackend, IngressController
<1> HIDE DEF S
<1>5. RBACRoles \o DefaultBackend \in Seq(S)
  BY <1>4
<1>6. Pieces = ToSet(RBACRoles \o DefaultBackend) \cup ToSet(IngressController)
  <2> DEFINE q == RBACRoles \o DefaultBackend
  <2>1. Pieces = ToSet(q \o IngressController)
    BY DEF Pieces
  <2>2. q \in Seq(S) /\ IngressController \in Seq(S)
    BY <1>4, <1>5
  <2> HIDE DEF q
  <2>3. ToSet(q \o IngressController) = ToSet(q) \cup ToSet(IngressController)
    BY <1>2, <2>2
  <2> QED BY <2>1, <2>3 DEF q
<1>7. ToSet(RBACRoles \o DefaultBackend) = ToSet(RBACRoles) \cup ToSet(DefaultBackend)
  BY <1>2, <1>4
<1> QED BY <1>1, <1>4, <1>6, <1>7

\* Every call but those that write the object.
LEMMA CallHolds ==
  ASSUME OverlapInv, NEW h \in Handlers,
         \/ CreateOrUpdateService(h)
         \/ setupRBACRoles(h) \/ setupDefaultBackend(h) \/ setupIngressController(h)
         \/ GetIngress(h) \/ GetForCert(h) \/ GetForUncert(h) \/ PutSecret(h) \/ DropSecret(h)
         \/ Unserve(h) \/ LastService(h) \/ RemoveController(h) \/ Fail(h)
  PROVE  OverlapInv'
<1> USE DEF At, Calls, CertCalls
<1>0. PlatformOK /\ Holds(pc[h], job[h])
  BY DEF OverlapInv, JobsOK
<1>1. CASE CreateOrUpdateService(h)
  <2>1. PlatformOK'
    BY <1>0, <1>1 DEF CreateOrUpdateService, PlatformOK, Holds
  <2>2. CASE Return(h)
    BY <1>1, <2>1, <2>2, ReturnHolds DEF CreateOrUpdateService, OverlapInv
  <2>3. ASSUME NEW call \in {"rbac", "get"}, Goto(h, call, job[h]) PROVE OverlapInv'
    BY <1>1, <2>1, <2>3, OnHolds DEF CreateOrUpdateService, OverlapInv
  <2> QED BY <1>1, <2>2, <2>3 DEF CreateOrUpdateService
<1>2. ASSUME NEW pieces, NEW next \in {"backend", "controller", "get"}, Setup(h, pieces, next), pc[h] # "idle",
             \A n \in 0..Len(pieces) : ToSet(SubSeq(pieces, 1, n)) \subseteq Pieces
      PROVE  OverlapInv'
  <2>1. PICK n \in 0..Len(pieces) :
          /\ controller' = controller \cup ToSet(SubSeq(pieces, 1, n))
          /\ Goto(h, next, job[h]) \/ Return(h)
          /\ UNCHANGED <<provider, asleep, services, ingress, secrets>>
    BY <1>2 DEF Setup
  <2>2. PlatformOK'
    BY <1>0, <1>2, <2>1 DEF PlatformOK
  <2>3. ObjectOK' /\ JobsOK' /\ Copied'
    <3>1. CASE Return(h)
      BY <2>1, <3>1, ReturnHolds
    <3>2. CASE Goto(h, next, job[h])
      BY <1>2, <2>1, <3>2, OnHolds
    <3> QED BY <2>1, <3>1, <3>2
  <2> QED BY <2>2, <2>3 DEF OverlapInv
<1>3. CASE setupRBACRoles(h) \/ setupDefaultBackend(h) \/ setupIngressController(h)
  <2>1. \A pieces \in {RBACRoles, DefaultBackend, IngressController} :
          \A n \in 0..Len(pieces) : ToSet(SubSeq(pieces, 1, n)) \subseteq Pieces
    BY PiecesAre
  <2>2. CASE setupRBACRoles(h)
    BY <1>2, <2>1, <2>2 DEF setupRBACRoles
  <2>3. CASE setupDefaultBackend(h)
    BY <1>2, <2>1, <2>3 DEF setupDefaultBackend
  <2>4. CASE setupIngressController(h)
    BY <1>2, <2>1, <2>4 DEF setupIngressController
  <2> QED BY <1>3, <2>2, <2>3, <2>4
<1>4. CASE GetIngress(h) \/ GetForCert(h) \/ GetForUncert(h)
  <2>1. PlatformOK' /\ UNCHANGED ingress
    BY <1>0, <1>4 DEF GetIngress, GetForCert, GetForUncert, PlatformOK, cluster, platform
  <2>2. CASE Return(h)
    BY <2>1, <2>2, ReturnHolds DEF OverlapInv
  <2>3. CASE GetIngress(h)
    BY <2>1, <2>3, ReadHolds DEF GetIngress, OverlapInv
  <2>4. CASE GetForCert(h) /\ ingress # None
    BY <2>1, <2>4, ReadHolds DEF GetForCert, OverlapInv
  <2>5. CASE GetForUncert(h) /\ ingress # None
    BY <2>1, <2>5, ReadHolds DEF GetForUncert, OverlapInv
  <2> QED BY <1>4, <2>2, <2>3, <2>4, <2>5 DEF GetForCert, GetForUncert
<1>5. CASE PutSecret(h)
  <2>1. PlatformOK'
    BY <1>0, <1>5 DEF PutSecret, SecretName, PlatformOK, Holds
  <2> QED BY <1>5, <2>1, OnHolds DEF PutSecret, OverlapInv
<1>6. CASE DropSecret(h)
  <2>1. PlatformOK'
    BY <1>0, <1>6 DEF DropSecret, PlatformOK
  <2> QED BY <1>6, <2>1, ReturnHolds DEF DropSecret, OverlapInv
<1>7. CASE Unserve(h)
  <2>1. PlatformOK'
    BY <1>0, <1>7 DEF Unserve, PlatformOK
  <2> QED BY <1>7, <2>1, OnHolds DEF Unserve, OverlapInv
<1>8. CASE LastService(h)
  <2>1. PlatformOK' /\ UNCHANGED ingress
    BY <1>0, <1>8 DEF LastService, PlatformOK, cluster, platform
  <2> QED BY <1>8, <2>1, OnHolds, ReturnHolds DEF LastService, OverlapInv
<1>9. CASE RemoveController(h)
  <2>1. PlatformOK'
    BY <1>0, <1>9 DEF RemoveController, PlatformOK
  <2> QED BY <1>9, <2>1, ReturnHolds DEF RemoveController, OverlapInv
<1>10. CASE Fail(h)
  <2>1. PlatformOK' /\ UNCHANGED ingress
    BY <1>0, <1>10 DEF Fail, PlatformOK, cluster, platform
  <2> QED BY <1>10, <2>1, ReturnHolds DEF Fail, OverlapInv
<1> QED BY <1>1, <1>3, <1>4, <1>5, <1>6, <1>7, <1>8, <1>9, <1>10

\* The rules or the certificates of an object replaced.
WithRules(o, rules) == [o EXCEPT !.rules = rules]
WithTLS(o, tls) == [o EXCEPT !.tls = tls]

LEMMA WithRulesIs ==
  ASSUME NEW o \in Ingress, NEW rules \in Seq(Rule)
  PROVE  /\ WithRules(o, rules) \in Ingress
         /\ WithRules(o, rules).rules = rules /\ WithRules(o, rules).tls = o.tls
  BY DEF Ingress, WithRules

LEMMA WithTLSIs ==
  ASSUME NEW o \in Ingress, NEW tls \in SUBSET TLSEntry
  PROVE  /\ WithTLS(o, tls) \in Ingress
         /\ WithTLS(o, tls).tls = tls /\ WithTLS(o, tls).rules = o.rules
  BY DEF Ingress, WithTLS

\* An update is refused, or replaces the object that was read.
LEMMA UpdateHolds ==
  ASSUME OverlapInv, NEW h \in Handlers, pc[h] # "idle", NEW new, NEW call \in Calls,
         Update(h, new, call),
         call = "idle" \/ (call = "dropSecret" /\ pc[h] \in CertCalls),
         ingress # None /\ job[h].copy = ingress => new \in Ingress /\ Unique(new)
  PROVE  ObjectOK' /\ JobsOK' /\ Copied'
<1>1. CASE ingress # None /\ job[h].fresh
  <2>1. job[h] \in Job /\ (job[h].fresh = TRUE => job[h].copy = ingress)
    BY DEF OverlapInv, JobsOK, Copied
  <2>2. job[h].copy = ingress
    BY <1>1, <2>1 DEF Job
  <2> QED BY <1>1, <2>2, WriteHolds DEF Update
<1>2. CASE ~ (ingress # None /\ job[h].fresh)
  BY <1>2, ReturnHolds DEF Update
<1> QED BY <1>1, <1>2

\* What the deploy of h makes of the object it has read.
Merged(h) == [job[h].copy EXCEPT !.rules = Merge(h).rules]

LEMMA MergedIs ==
  ASSUME OverlapInv, NEW h \in Handlers, pc[h] # "idle", ingress # None, job[h].copy = ingress
  PROVE  /\ Merged(h) \in Ingress /\ Unique(Merged(h))
         /\ ToSet(job[h].source) \subseteq ToSet(Merged(h).rules)
         /\ \A r \in ToSet(ingress.rules) :
              \/ r.backend.app = job[h].app \/ r.host \in Hosts(job[h].source)
              \/ r \in ToSet(Merged(h).rules)
<1> DEFINE source == job[h].source
           new    == Merge(h).rules
<1>1. ingress \in Ingress /\ Unique(ingress) /\ Holds(pc[h], job[h])
  BY DEF OverlapInv, ObjectOK, JobsOK
<1>2. ingress.rules \in Seq(Rule) /\ source \in Seq(Rule) /\ Distinct(source) /\ Distinct(ingress.rules)
  BY <1>1 DEF Holds, Job, Ingress, Unique
<1>3. /\ new \in Seq(Rule) /\ Distinct(new)
      /\ ToSet(source) \subseteq ToSet(new)
      /\ \A r \in ToSet(ingress.rules) : r.host \notin Hosts(source) /\ r.backend \notin BackendsOf(source)
                                           => r \in ToSet(new)
  BY <1>2, MergeIs DEF Merge
<1>4. Merged(h) = WithRules(ingress, new)
  BY DEF Merged, WithRules
<1> HIDE DEF new
<1>5. Merged(h) \in Ingress /\ Merged(h).rules = new /\ Merged(h).tls = ingress.tls
  BY <1>1, <1>3, <1>4, WithRulesIs
<1>6. Unique(Merged(h))
  BY <1>1, <1>3, <1>5 DEF Unique
<1>7. ASSUME NEW r, r.backend \in BackendsOf(source) PROVE r.backend.app = job[h].app
  BY <1>1, <1>7 DEF Holds, BackendsOf
<1> QED BY <1>3, <1>5, <1>6, <1>7

LEMMA DeployWritesHold ==
  ASSUME OverlapInv, NEW h \in Handlers, CreateIngress(h) \/ UpdateIngress(h)
  PROVE  OverlapInv'
<1>1. pc[h] # "idle" /\ pc[h] = "put" /\ "idle" \in Calls
  BY DEF CreateIngress, UpdateIngress, At, Calls
<1>2. PlatformOK'
  BY DEF CreateIngress, UpdateIngress, platform, OverlapInv, PlatformOK
<1>3. CASE CreateIngress(h)
  <2> DEFINE new == [rules |-> job[h].source, tls |-> {}]
  <2>1. job[h].source \in Seq(Rule) /\ Distinct(job[h].source)
    BY DEF OverlapInv, JobsOK, Holds, Job
  <2>2. new \in Ingress /\ new.rules = job[h].source /\ new.tls = {}
    BY <2>1 DEF Ingress
  <2>3. Write(h, new, "idle") \/ (Return(h) /\ UNCHANGED ingress)
    BY <1>3 DEF CreateIngress
  <2> HIDE DEF new
  <2>4. Unique(new)
    BY <2>1, <2>2 DEF Unique
  <2>5. ObjectOK' /\ JobsOK' /\ Copied'
    BY <1>1, <2>2, <2>3, <2>4, WriteHolds, ReturnHolds
  <2> QED BY <1>2, <2>5 DEF OverlapInv
<1>4. CASE UpdateIngress(h)
  <2>1. Update(h, Merged(h), "idle")
    BY <1>4 DEF UpdateIngress, Merged
  <2>2. ObjectOK' /\ JobsOK' /\ Copied'
    BY <1>1, <2>1, MergedIs, UpdateHolds
  <2> QED BY <1>2, <2>2 DEF OverlapInv
<1> QED BY <1>3, <1>4

\* What a certificate set or deleted makes of the object that was read.
Certified(h)   == WithTLS(job[h].copy, WithCert(job[h].copy.tls, SecretName(h), job[h].domain))
Uncertified(h) == WithTLS(job[h].copy, {t \in job[h].copy.tls : t.secret # SecretName(h)})

LEMMA CertObjects ==
  ASSUME OverlapInv, NEW h \in Handlers, pc[h] \in CertCalls, ingress # None, job[h].copy = ingress
  PROVE  /\ Certified(h) \in Ingress /\ Unique(Certified(h))
         /\ Uncertified(h) \in Ingress /\ Unique(Uncertified(h))
<1>1. job[h].app \in Apps /\ job[h].domain \in Domains
  BY DEF OverlapInv, JobsOK, Holds, CertCalls
<1>2. /\ ingress \in Ingress /\ ingress.tls \in SUBSET TLSEntry /\ Distinct(ingress.rules)
      /\ \A s, t \in ingress.tls : s.host = t.host => s = t
  BY DEF OverlapInv, ObjectOK, Unique, Ingress
<1>3. ASSUME NEW tls \in SUBSET TLSEntry, \A s, t \in tls : s.host = t.host => s = t
      PROVE  WithTLS(ingress, tls) \in Ingress /\ Unique(WithTLS(ingress, tls))
  BY <1>2, <1>3, WithTLSIs DEF Unique
<1>4. Certified(h) \in Ingress /\ Unique(Certified(h))
  <2> DEFINE tls == WithCert(ingress.tls, SecretName(h), job[h].domain)
  <2>1. [host |-> job[h].domain, secret |-> SecretName(h)] \in TLSEntry
    BY <1>1 DEF TLSEntry, SecretName
  <2>2. tls \in SUBSET TLSEntry /\ \A s, t \in tls : s.host = t.host => s = t
    BY <1>2, <2>1 DEF WithCert
  <2>3. Certified(h) = WithTLS(ingress, tls)
    BY DEF Certified
  <2> HIDE DEF tls
  <2> QED BY <1>3, <2>2, <2>3
<1>5. Uncertified(h) \in Ingress /\ Unique(Uncertified(h))
  <2> DEFINE tls == {t \in ingress.tls : t.secret # SecretName(h)}
  <2>1. tls \in SUBSET TLSEntry /\ \A s, t \in tls : s.host = t.host => s = t
    BY <1>2
  <2>2. Uncertified(h) = WithTLS(ingress, tls)
    BY DEF Uncertified
  <2> HIDE DEF tls
  <2> QED BY <1>3, <2>1, <2>2
<1> QED BY <1>4, <1>5

LEMMA CertWritesHold ==
  ASSUME OverlapInv, NEW h \in Handlers, PutCert(h) \/ DropCert(h)
  PROVE  OverlapInv'
<1>1. pc[h] # "idle" /\ pc[h] \in CertCalls /\ {"idle", "dropSecret"} \subseteq Calls
  BY DEF PutCert, DropCert, At, Calls, CertCalls
<1>2. PlatformOK'
  BY DEF PutCert, DropCert, platform, OverlapInv, PlatformOK
<1>3. Update(h, Certified(h), "idle") \/ Update(h, Uncertified(h), "dropSecret")
  BY DEF PutCert, DropCert, Certified, Uncertified, WithTLS
<1>4. ObjectOK' /\ JobsOK' /\ Copied'
  BY <1>1, <1>3, CertObjects, UpdateHolds
<1> QED BY <1>2, <1>4 DEF OverlapInv

LEMMA DropHolds ==
  ASSUME OverlapInv, NEW h \in Handlers, DropIngress(h)
  PROVE  OverlapInv'
<1>1. pc[h] # "idle"
  BY DEF DropIngress, At
<1>2. PlatformOK'
  BY DEF DropIngress, platform, OverlapInv, PlatformOK
<1>3. PICK new \in {None, ingress}, call \in {"idle", "removeController"} : Write(h, new, call)
  BY DEF DropIngress
<1>4. new \in Ingress \cup {None} /\ Unique(new) /\ call \in Calls
  BY DEF OverlapInv, ObjectOK, Unique, Calls
<1>5. ObjectOK' /\ JobsOK' /\ Copied'
  BY <1>1, <1>3, <1>4, WriteHolds
<1> QED BY <1>2, <1>5 DEF OverlapInv

LEMMA PanicHolds ==
  ASSUME OverlapInv, NEW h \in Handlers, MergePanics(h)
  PROVE  OverlapInv'
<1>1. \A k \in Handlers : Holds(pc'[k], job'[k]) /\ job'[k].fresh = FALSE
  BY NoJobHolds DEF MergePanics
<1>2. pc' \in [Handlers -> Calls]
  BY DEF MergePanics, Calls
<1>3. DOMAIN job' = Handlers /\ job' = [k \in Handlers |-> job'[k]]
  BY DEF MergePanics
<1>4. job' \in [Handlers -> Job]
  BY <1>1, <1>3 DEF Holds
<1>5. JobsOK' /\ Copied'
  BY <1>1, <1>2, <1>4 DEF JobsOK, Copied
<1>6. PlatformOK' /\ ObjectOK'
  BY DEF MergePanics, cluster, platform, OverlapInv, PlatformOK, ObjectOK
<1> QED BY <1>5, <1>6 DEF OverlapInv

LEMMA OverlapInvHolds == Spec => []OverlapInv
<1>1. Init => OverlapInv
  <2> SUFFICES ASSUME Init
               PROVE  OverlapInv
    OBVIOUS
  <2>1. PlatformOK /\ ObjectOK
    BY DEF Init, PlatformOK, ObjectOK, Unique
  <2>2. \A h \in Handlers : Holds(pc[h], job[h]) /\ job[h].fresh = FALSE
    BY NoJobHolds DEF Init
  <2>3. pc \in [Handlers -> Calls]
    BY DEF Init, Calls
  <2>4. job \in [Handlers -> Job]
    BY NoJobHolds DEF Init, Holds
  <2> QED BY <2>1, <2>2, <2>3, <2>4 DEF OverlapInv, JobsOK, Copied
<1>2. OverlapInv /\ [Next]_vars => OverlapInv'
  <2>1. ASSUME OverlapInv, NEW h \in Handlers, Request(h) PROVE OverlapInv'
    BY <2>1, DeployHolds, ArriveHolds DEF Request
  <2>2. ASSUME OverlapInv, NEW h \in Handlers, Step(h) PROVE OverlapInv'
    BY <2>2, CallHolds, DeployWritesHold, CertWritesHold, DropHolds, PanicHolds DEF Step
  <2>3. CASE UNCHANGED vars
    BY <2>3 DEF vars, OverlapInv, PlatformOK, ObjectOK, JobsOK, Copied
  <2> QED BY <2>1, <2>2, <2>3 DEF Next
<1> QED BY <1>1, <1>2, PTL DEF Spec

\* However requests overlap and whichever of their calls fail, the platform, the
\* object and the jobs of the requests keep to their types.
THEOREM RequestsTypeCorrect == Spec => []TypeOK
<1>1. OverlapInv => TypeOK
  BY DEF OverlapInv, PlatformOK, ObjectOK, JobsOK, TypeOK
<1> QED BY <1>1, OverlapInvHolds, PTL

\* However requests overlap, a host of the shared object has one rule and one
\* certificate.
THEOREM OneRuleForAHost == Spec => []OneRulePerHost
<1>1. OverlapInv => OneRulePerHost
  <2> SUFFICES ASSUME OverlapInv, ingress # None
               PROVE  /\ \A i, j \in DOMAIN ingress.rules :
                           i # j => ingress.rules[i].host # ingress.rules[j].host
                      /\ \A s, t \in ingress.tls : s.host = t.host => s = t
    BY DEF OneRulePerHost
  <2> QED BY DEF OverlapInv, ObjectOK, Unique, Distinct
<1> QED BY <1>1, OverlapInvHolds, PTL

\* What a deploy does to the object it writes.
LEMMA DeployWrites ==
  ASSUME OverlapInv, NEW h \in Handlers, CreateIngress(h) \/ UpdateIngress(h)
  PROVE  \/ ingress' = ingress
         \/ ingress = None /\ Routes(ingress') = ToSet(job[h].source)
         \/ ingress # None /\ job[h].copy = ingress /\ ingress' = Merged(h) /\ ingress' # None
<1>1. job[h] \in Job /\ (job[h].fresh = TRUE => job[h].copy = ingress) /\ pc[h] # "idle"
  BY DEF OverlapInv, JobsOK, Copied, CreateIngress, UpdateIngress, At
<1>2. CASE CreateIngress(h)
  <2> DEFINE new == [rules |-> job[h].source, tls |-> {}]
  <2>1. ingress' = ingress \/ (ingress = None /\ ingress' = new)
    BY <1>2 DEF CreateIngress, Write
  <2>2. new \in Ingress /\ new.rules = job[h].source
    BY <1>1 DEF Ingress, Job
  <2> HIDE DEF new
  <2> QED BY <2>1, <2>2, NoObjectAssumption DEF Routes
<1>3. CASE UpdateIngress(h)
  <2>1. Update(h, Merged(h), "idle")
    BY <1>3 DEF UpdateIngress, Merged
  <2>2. ingress' = ingress \/ (ingress # None /\ job[h].fresh = TRUE /\ ingress' = Merged(h))
    BY <1>1, <2>1 DEF Update, Write, Job
  <2>3. ingress # None /\ job[h].copy = ingress => Merged(h) # None
    BY <1>1, MergedIs, NoObjectAssumption
  <2> QED BY <1>1, <2>2, <2>3
<1> QED BY <1>2, <1>3

\* However deploys overlap, none takes the route of another app away, nor one that
\* was added since it read the object, but those of its own domains.
THEOREM OthersKeepTheirRoutes == Spec => DeployKeepsOthers
<1> DEFINE Kept ==
      \A h \in Handlers :
        CreateIngress(h) \/ UpdateIngress(h) =>
          \A r \in Routes(ingress) :
            r.backend.app = job[h].app \/ r.host \in Hosts(job[h].source) \/ r \in Routes(ingress')
<1>1. OverlapInv => Kept
  <2> SUFFICES ASSUME OverlapInv, NEW h \in Handlers, CreateIngress(h) \/ UpdateIngress(h),
                      NEW r \in Routes(ingress)
               PROVE  r.backend.app = job[h].app \/ r.host \in Hosts(job[h].source) \/ r \in Routes(ingress')
    OBVIOUS
  <2>1. ingress # None /\ r \in ToSet(ingress.rules) /\ pc[h] # "idle"
    BY DEF Routes, CreateIngress, UpdateIngress, At
  <2>2. CASE ingress' = ingress
    BY <2>2
  <2>3. CASE job[h].copy = ingress /\ ingress' = Merged(h) /\ ingress' # None
    <3>1. Routes(ingress') = ToSet(Merged(h).rules)
      BY <2>3 DEF Routes
    <3> QED BY <2>1, <2>3, <3>1, MergedIs
  <2> QED BY <2>1, <2>2, <2>3, DeployWrites
<1>2. OverlapInv /\ [Next]_vars => [Kept]_vars
  BY <1>1
<1>3. Spec => [][Kept]_vars
  BY <1>2, OverlapInvHolds, PTL DEF Spec
<1> QED BY <1>3 DEF DeployKeepsOthers

\* A deploy that changes the shared object leaves the domains of its app routed to
\* the port it deploys, whatever the object held.
THEOREM DomainsAreRouted == Spec => DeployRoutesDomains
<1> DEFINE Routed ==
      \A h \in Handlers :
        CreateIngress(h) \/ UpdateIngress(h) =>
          (ingress' # ingress => ToSet(job[h].source) \subseteq Routes(ingress'))
<1>1. OverlapInv => Routed
  <2> SUFFICES ASSUME OverlapInv, NEW h \in Handlers, CreateIngress(h) \/ UpdateIngress(h),
                      ingress' # ingress
               PROVE  ToSet(job[h].source) \subseteq Routes(ingress')
    OBVIOUS
  <2>1. pc[h] # "idle"
    BY DEF CreateIngress, UpdateIngress, At
  <2>2. CASE ingress # None /\ job[h].copy = ingress /\ ingress' = Merged(h) /\ ingress' # None
    <3>1. Routes(ingress') = ToSet(Merged(h).rules)
      BY <2>2 DEF Routes
    <3> QED BY <2>1, <2>2, <3>1, MergedIs
  <2> QED BY <2>2, DeployWrites
<1>2. OverlapInv /\ [Next]_vars => [Routed]_vars
  BY <1>1
<1>3. Spec => [][Routed]_vars
  BY <1>2, OverlapInvHolds, PTL DEF Spec
<1> QED BY <1>3 DEF DeployRoutesDomains

------------------------------------------------------------------------------
(* Requests one at a time                                                   *)

OneAtATime == \A h, k \in Handlers : h = k

\* Records of which only the fields are known.
IsObject(o) == o \in [rules : {o.rules}, tls : {o.tls}]
IsJob(j) ==
  j \in [app : {j.app}, domain : {j.domain}, source : {j.source}, copy : {j.copy}, fresh : {j.fresh}]

Shaped ==
  /\ DOMAIN pc = Handlers /\ DOMAIN job = Handlers
  /\ \A h \in Handlers : IsJob(job[h])
  /\ ingress # None => IsObject(ingress)

\* The secret is there before the entry, and the entry gone before the secret.
Backed ==
  \A h \in Handlers :
    /\ At(h, "putCert") => SecretName(h) \in secrets
    /\ At(h, "dropSecret") /\ ingress # None => \A t \in ingress.tls : t.secret # SecretName(h)

\* The Ingress and the controller are removed when no service is left.
Cleared == \A h \in Handlers : At(h, "dropIngress") \/ At(h, "removeController") => services = {}

\* A call is made when the pieces before it are there.
Built ==
  /\ controller \subseteq Pieces
  /\ \A h \in Handlers :
       /\ At(h, "backend") => ToSet(RBACRoles) \subseteq controller
       /\ At(h, "controller") => ToSet(RBACRoles) \cup ToSet(DefaultBackend) \subseteq controller
       /\ provider = "aws" /\ (At(h, "get") \/ At(h, "put")) => controller = Pieces

Inv == Shaped /\ Copied /\ TLSHasSecret /\ Backed /\ Cleared /\ Built

------------------------------------------------------------------------------
(* Steps                                                                    *)

LEMMA NoJobIs == IsJob(NoJob) /\ NoJob.fresh = FALSE
  BY DEF IsJob, NoJob

\* The request goes on with another call.
LEMMA GotoIs ==
  ASSUME OneAtATime, Inv, NEW h \in Handlers, NEW call, NEW j, Goto(h, call, j)
  PROVE  /\ DOMAIN pc' = Handlers /\ DOMAIN job' = Handlers
         /\ \A k \in Handlers : pc'[k] = call /\ job'[k] = (IF call = "idle" THEN NoJob ELSE j)
  BY DEF OneAtATime, Inv, Shaped, Goto

LEMMA ReturnSafe ==
  ASSUME OneAtATime, Inv, NEW h \in Handlers, Return(h), UNCHANGED cluster
  PROVE  Inv'
<1>1. /\ DOMAIN pc' = Handlers /\ DOMAIN job' = Handlers
      /\ \A k \in Handlers : pc'[k] = "idle" /\ job'[k] = NoJob
  BY GotoIs DEF Return
<1>2. Shaped' /\ Copied'
  BY <1>1, NoJobIs DEF Inv, Shaped, Copied, cluster
<1>3. TLSHasSecret' /\ Backed' /\ Cleared' /\ Built'
  BY <1>1 DEF Inv, TLSHasSecret, Backed, Cleared, Built, At, cluster, platform
<1> QED BY <1>2, <1>3 DEF Inv

\* A request whose next call needs nothing to be done before.
LEMMA FreeSafe ==
  ASSUME OneAtATime, Inv, NEW h \in Handlers, NEW call, NEW j, Goto(h, call, j), UNCHANGED cluster,
         call \notin {"backend", "controller", "putCert", "dropSecret", "dropIngress", "removeController"},
         provider = "aws" => call \notin {"get", "put"},
         IsJob(j), j.fresh = TRUE => j.copy = ingress
  PROVE  Inv'
<1>1. /\ DOMAIN pc' = Handlers /\ DOMAIN job' = Handlers
      /\ \A k \in Handlers : pc'[k] = call /\ (job'[k] = j \/ job'[k] = NoJob)
  BY GotoIs
<1>2. Shaped' /\ Copied'
  BY <1>1, NoJobIs DEF Inv, Shaped, Copied, cluster
<1>3. TLSHasSecret' /\ Backed' /\ Cleared' /\ Built'
  BY <1>1 DEF Inv, TLSHasSecret, Backed, Cleared, Built, At, cluster, platform
<1> QED BY <1>2, <1>3 DEF Inv

LEMMA RequestSafe ==
  ASSUME OneAtATime, Inv, NEW h \in Handlers, Request(h)
  PROVE  Inv'
<1>1. ASSUME NEW a, NEW s, Goto(h, "service", [NoJob EXCEPT !.app = a, !.source = s]), UNCHANGED cluster
      PROVE  Inv'
  <2> DEFINE j == [NoJob EXCEPT !.app = a, !.source = s]
  <2>1. IsJob(j) /\ j.fresh = FALSE
    BY DEF IsJob, NoJob
  <2>2. Goto(h, "service", j)
    BY <1>1
  <2> HIDE DEF j
  <2> QED BY <1>1, <2>1, <2>2, FreeSafe
<1>2. ASSUME NEW a, NEW d, NEW call \in {"getForCert", "getForUncert"},
             Goto(h, call, [NoJob EXCEPT !.app = a, !.domain = d]), UNCHANGED cluster
      PROVE  Inv'
  <2> DEFINE j == [NoJob EXCEPT !.app = a, !.domain = d]
  <2>1. IsJob(j) /\ j.fresh = FALSE
    BY DEF IsJob, NoJob
  <2>2. Goto(h, call, j)
    BY <1>2
  <2> HIDE DEF j
  <2> QED BY <1>2, <2>1, <2>2, FreeSafe
<1>3. ASSUME NEW a, Goto(h, "unserve", [NoJob EXCEPT !.app = a]), UNCHANGED cluster
      PROVE  Inv'
  <2> DEFINE j == [NoJob EXCEPT !.app = a]
  <2>1. IsJob(j) /\ j.fresh = FALSE
    BY DEF IsJob, NoJob
  <2>2. Goto(h, "unserve", j)
    BY <1>3
  <2> HIDE DEF j
  <2> QED BY <1>3, <2>1, <2>2, FreeSafe
<1> QED BY <1>1, <1>2, <1>3 DEF Request, Deploy, CertificateSet, CertificateDelete, DeleteApp

\* What a request has read.
LEMMA ReadIs ==
  ASSUME Inv, NEW h \in Handlers
  PROVE  IsJob(Read(h)) /\ Read(h).copy = ingress
<1>1. IsJob(job[h])
  BY DEF Inv, Shaped
<1> QED BY <1>1 DEF IsJob, Read

LEMMA GetSafe ==
  ASSUME OneAtATime, Inv, NEW h \in Handlers, GetIngress(h) \/ GetForCert(h) \/ GetForUncert(h)
  PROVE  Inv'
<1>1. CASE Return(h) /\ UNCHANGED cluster
  BY <1>1, ReturnSafe
<1>2. CASE (GetForCert(h) \/ GetForUncert(h)) /\ ~ Return(h)
  BY <1>2, ReadIs, FreeSafe DEF GetForCert, GetForUncert
<1>3. CASE GetIngress(h)
  <2>1. /\ DOMAIN pc' = Handlers /\ DOMAIN job' = Handlers
        /\ \A k \in Handlers : pc'[k] = "put" /\ job'[k] = Read(h)
    BY <1>3, GotoIs DEF GetIngress
  <2>2. \A k \in Handlers : k = h
    BY DEF OneAtATime
  <2>3. Shaped' /\ Copied'
    BY <1>3, <2>1, ReadIs DEF GetIngress, Inv, Shaped, Copied, cluster
  <2>4. TLSHasSecret' /\ Backed' /\ Cleared'
    BY <1>3, <2>1 DEF GetIngress, Inv, TLSHasSecret, Backed, Cleared, At, cluster, platform
  <2>5. Built'
    BY <1>3, <2>1 DEF GetIngress, Inv, Built, At, cluster, platform
  <2> QED BY <2>3, <2>4, <2>5 DEF Inv
<1> QED BY <1>1, <1>2, <1>3 DEF GetForCert, GetForUncert

------------------------------------------------------------------------------
(* The platform: services and the controller                                *)

LEMMA ServiceSafe ==
  ASSUME OneAtATime, Inv, NEW h \in Handlers, CreateOrUpdateService(h)
  PROVE  Inv'
<1>1. IsJob(job[h]) /\ (job[h].fresh = TRUE => job[h].copy = ingress)
  BY DEF Inv, Shaped, Copied
<1>2. PICK call \in {"idle", "rbac", "get"}, j \in {NoJob, job[h]} :
        Goto(h, call, j) /\ (provider = "aws" => call # "get")
  <2>1. \/ Goto(h, "idle", NoJob)
        \/ provider = "aws" /\ Goto(h, "rbac", job[h])
        \/ provider # "aws" /\ Goto(h, "get", job[h])
    BY DEF CreateOrUpdateService, Return
  <2> QED BY <2>1
<1>3. /\ DOMAIN pc' = Handlers /\ DOMAIN job' = Handlers
      /\ \A k \in Handlers : pc'[k] = call /\ (job'[k] = job[h] \/ job'[k] = NoJob)
  BY <1>2, GotoIs
<1>4. UNCHANGED <<provider, controller, ingress, secrets>>
  BY DEF CreateOrUpdateService
<1>5. Shaped' /\ Copied'
  BY <1>1, <1>3, <1>4, NoJobIs DEF Inv, Shaped, Copied
<1>6. TLSHasSecret' /\ Backed' /\ Cleared' /\ Built'
  BY <1>2, <1>3, <1>4 DEF Inv, TLSHasSecret, Backed, Cleared, Built, At
<1> QED BY <1>5, <1>6 DEF Inv

LEMMA SetupSafe ==
  ASSUME OneAtATime, Inv, NEW h \in Handlers, NEW next, NEW pieces, Setup(h, pieces, next),
         ToSet(pieces) \subseteq Pieces,
         \A n \in 0..Len(pieces) : ToSet(SubSeq(pieces, 1, n)) \subseteq ToSet(pieces),
         SubSeq(pieces, 1, Len(pieces)) = pieces,
         \/ next = "backend" /\ ToSet(RBACRoles) \subseteq ToSet(pieces) \cup controller
         \/ /\ next = "controller"
            /\ ToSet(RBACRoles) \cup ToSet(DefaultBackend) \subseteq ToSet(pieces) \cup controller
         \/ next = "get" /\ Pieces \subseteq ToSet(pieces) \cup controller
  PROVE  Inv'
<1>1. PICK n \in 0..Len(pieces) :
        /\ controller' = controller \cup ToSet(SubSeq(pieces, 1, n))
        /\ IF n = Len(pieces) THEN Goto(h, next, job[h]) ELSE Return(h)
        /\ UNCHANGED <<provider, asleep, services, ingress, secrets>>
  BY DEF Setup
<1>2. IsJob(job[h]) /\ (job[h].fresh = TRUE => job[h].copy = ingress)
  BY DEF Inv, Shaped, Copied
<1>3. PICK call \in {"idle", next}, j \in {NoJob, job[h]} :
        Goto(h, call, j) /\ (call = "idle" \/ n = Len(pieces))
  BY <1>1 DEF Return
<1>4. /\ DOMAIN pc' = Handlers /\ DOMAIN job' = Handlers
      /\ \A k \in Handlers : pc'[k] = call /\ (job'[k] = job[h] \/ job'[k] = NoJob)
  <2>1. Goto(h, call, j)
    BY <1>3
  <2>2. /\ DOMAIN pc' = Handlers /\ DOMAIN job' = Handlers
        /\ \A k \in Handlers : pc'[k] = call /\ (job'[k] = j \/ job'[k] = NoJob)
    BY <2>1, GotoIs
  <2> QED BY <2>2
<1>5. Shaped' /\ Copied'
  BY <1>1, <1>2, <1>4, NoJobIs DEF Inv, Shaped, Copied
<1>6. TLSHasSecret' /\ Backed' /\ Cleared'
  BY <1>1, <1>3, <1>4 DEF Inv, TLSHasSecret, Backed, Cleared, At
<1>7. controller' \subseteq Pieces
  BY <1>1 DEF Inv, Built
<1>8. call # "idle" => controller' = ToSet(pieces) \cup controller
  BY <1>1, <1>3
<1>9. Built'
  BY <1>3, <1>4, <1>7, <1>8 DEF Built, At
<1> QED BY <1>5, <1>6, <1>9 DEF Inv

LEMMA ControllerSafe ==
  ASSUME OneAtATime, Inv, NEW h \in Handlers,
         setupRBACRoles(h) \/ setupDefaultBackend(h) \/ setupIngressController(h)
  PROVE  Inv'
<1>1. /\ SubSeq(RBACRoles, 1, Len(RBACRoles)) = RBACRoles
      /\ SubSeq(DefaultBackend, 1, Len(DefaultBackend)) = DefaultBackend
      /\ SubSeq(IngressController, 1, Len(IngressController)) = IngressController
  <2>1. ASSUME NEW S, NEW q \in Seq(S)
        PROVE  SubSeq(q, 1, Len(q)) = q
    BY <2>1
  <2> QED BY <2>1, PiecesAre
<1>2. CASE setupRBACRoles(h)
  BY <1>1, <1>2, PiecesAre, SetupSafe DEF setupRBACRoles
<1>3. CASE setupDefaultBackend(h)
  <2>1. ToSet(RBACRoles) \subseteq controller
    BY <1>3 DEF setupDefaultBackend, Inv, Built
  <2> QED BY <1>1, <1>3, <2>1, PiecesAre, SetupSafe DEF setupDefaultBackend
<1>4. CASE setupIngressController(h)
  <2>1. ToSet(RBACRoles) \cup ToSet(DefaultBackend) \subseteq controller
    BY <1>4 DEF setupIngressController, Inv, Built
  <2> QED BY <1>1, <1>4, <2>1, PiecesAre, SetupSafe DEF setupIngressController
<1> QED BY <1>2, <1>3, <1>4

LEMMA UnserveSafe ==
  ASSUME OneAtATime, Inv, NEW h \in Handlers, Unserve(h)
  PROVE  Inv'
<1>1. IsJob(job[h]) /\ (job[h].fresh = TRUE => job[h].copy = ingress)
  BY DEF Inv, Shaped, Copied
<1>2. /\ DOMAIN pc' = Handlers /\ DOMAIN job' = Handlers
      /\ \A k \in Handlers : pc'[k] = "lastService" /\ job'[k] = job[h]
  BY GotoIs DEF Unserve
<1>3. UNCHANGED <<provider, controller, ingress, secrets>>
  BY DEF Unserve
<1>4. Shaped' /\ Copied'
  BY <1>1, <1>2, <1>3 DEF Inv, Shaped, Copied
<1>5. TLSHasSecret' /\ Backed' /\ Cleared' /\ Built'
  BY <1>2, <1>3 DEF Inv, TLSHasSecret, Backed, Cleared, Built, At
<1> QED BY <1>4, <1>5 DEF Inv

LEMMA LastServiceSafe ==
  ASSUME OneAtATime, Inv, NEW h \in Handlers, LastService(h)
  PROVE  Inv'
<1>1. CASE Return(h) /\ UNCHANGED cluster
  BY <1>1, ReturnSafe
<1>2. CASE services = {} /\ Goto(h, "dropIngress", job[h]) /\ UNCHANGED cluster
  <2>1. IsJob(job[h]) /\ (job[h].fresh = TRUE => job[h].copy = ingress)
    BY DEF Inv, Shaped, Copied
  <2>2. /\ DOMAIN pc' = Handlers /\ DOMAIN job' = Handlers
        /\ \A k \in Handlers : pc'[k] = "dropIngress" /\ job'[k] = job[h]
    BY <1>2, GotoIs
  <2>3. Shaped' /\ Copied'
    BY <1>2, <2>1, <2>2 DEF Inv, Shaped, Copied, cluster
  <2>4. TLSHasSecret' /\ Backed' /\ Cleared' /\ Built'
    BY <1>2, <2>2 DEF Inv, TLSHasSecret, Backed, Cleared, Built, At, cluster, platform
  <2> QED BY <2>3, <2>4 DEF Inv
<1> QED BY <1>1, <1>2 DEF LastService

LEMMA RemoveControllerSafe ==
  ASSUME OneAtATime, Inv, NEW h \in Handlers, RemoveController(h)
  PROVE  Inv'
<1>1. /\ DOMAIN pc' = Handlers /\ DOMAIN job' = Handlers
      /\ \A k \in Handlers : pc'[k] = "idle" /\ job'[k] = NoJob
  BY GotoIs DEF RemoveController, Return
<1>2. controller' \subseteq controller /\ UNCHANGED <<provider, services, ingress, secrets>>
  BY DEF RemoveController
<1>3. Shaped' /\ Copied'
  BY <1>1, <1>2, NoJobIs DEF Inv, Shaped, Copied
<1>4. TLSHasSecret' /\ Backed' /\ Cleared' /\ Built'
  BY <1>1, <1>2 DEF Inv, TLSHasSecret, Backed, Cleared, Built, At
<1> QED BY <1>3, <1>4 DEF Inv

------------------------------------------------------------------------------
(* The secrets                                                              *)

LEMMA PutSecretSafe ==
  ASSUME OneAtATime, Inv, NEW h \in Handlers, PutSecret(h)
  PROVE  Inv'
<1>1. IsJob(job[h]) /\ (job[h].fresh = TRUE => job[h].copy = ingress)
  BY DEF Inv, Shaped, Copied
<1>2. /\ DOMAIN pc' = Handlers /\ DOMAIN job' = Handlers
      /\ \A k \in Handlers : pc'[k] = "putCert" /\ job'[k] = job[h]
  BY GotoIs DEF PutSecret
<1>3. secrets' = secrets \cup {SecretName(h)} /\ UNCHANGED <<provider, controller, services, ingress>>
  BY DEF PutSecret
<1>4. \A k \in Handlers : SecretName(k)' = SecretName(h)
  BY <1>2 DEF SecretName
<1>5. Shaped' /\ Copied'
  BY <1>1, <1>2, <1>3 DEF Inv, Shaped, Copied
<1>6. TLSHasSecret' /\ Backed' /\ Cleared' /\ Built'
  BY <1>2, <1>3, <1>4 DEF Inv, TLSHasSecret, Backed, Cleared, Built, At
<1> QED BY <1>5, <1>6 DEF Inv

LEMMA DropSecretSafe ==
  ASSUME OneAtATime, Inv, NEW h \in Handlers, DropSecret(h)
  PROVE  Inv'
<1>1. /\ DOMAIN pc' = Handlers /\ DOMAIN job' = Handlers
      /\ \A k \in Handlers : pc'[k] = "idle" /\ job'[k] = NoJob
  BY GotoIs DEF DropSecret, Return
<1>2. secrets' = secrets \ {SecretName(h)} /\ UNCHANGED <<provider, controller, services, ingress>>
  BY DEF DropSecret
<1>3. ingress # None => \A t \in ingress.tls : t.secret # SecretName(h)
  BY DEF DropSecret, Inv, Backed
<1>4. Shaped' /\ Copied'
  BY <1>1, <1>2, NoJobIs DEF Inv, Shaped, Copied
<1>5. TLSHasSecret'
  BY <1>2, <1>3 DEF Inv, TLSHasSecret
<1>6. Backed' /\ Cleared' /\ Built'
  BY <1>1, <1>2 DEF Inv, Backed, Cleared, Built, At
<1> QED BY <1>4, <1>5, <1>6 DEF Inv

------------------------------------------------------------------------------
(* The shared object                                                        *)

LEMMA WriteSafe ==
  ASSUME OneAtATime, Inv, NEW h \in Handlers, NEW new, NEW call, Write(h, new, call), UNCHANGED platform,
         call \in {"idle", "dropSecret", "removeController"},
         new # None => IsObject(new) /\ \A t \in new.tls : t.secret \in secrets,
         call = "dropSecret" /\ new # None => \A t \in new.tls : t.secret # SecretName(h),
         call = "removeController" => services = {}
  PROVE  Inv'
<1>1. \A k \in Handlers : k = h
  BY DEF OneAtATime
<1>2. DOMAIN pc' = Handlers /\ DOMAIN job' = Handlers /\ ingress' = new
  BY DEF Write, Inv, Shaped
<1>3. \A k \in Handlers : pc'[k] = call
  BY <1>1 DEF Write, Inv, Shaped
<1>4. job'[h] = (IF call = "idle" THEN NoJob ELSE [job[h] EXCEPT !.fresh = FALSE])
  BY DEF Write
<1>5. IsJob(job[h])
  BY DEF Inv, Shaped
<1>6. IsJob(job'[h]) /\ job'[h].fresh = FALSE
  BY <1>4, <1>5, NoJobIs DEF IsJob
<1>7. call # "idle" => SecretName(h)' = SecretName(h)
  <2>1. ASSUME call # "idle"
        PROVE  job'[h].app = job[h].app /\ job'[h].domain = job[h].domain
    BY <1>4, <1>5, <2>1 DEF IsJob
  <2> QED BY <2>1 DEF SecretName
<1>8. Shaped' /\ Copied'
  BY <1>1, <1>2, <1>6 DEF Shaped, Copied
<1>9. TLSHasSecret' /\ Backed' /\ Cleared' /\ Built'
  BY <1>1, <1>2, <1>3, <1>7 DEF TLSHasSecret, Backed, Cleared, Built, At, platform, Inv
<1> QED BY <1>8, <1>9 DEF Inv

\* An update that is refused ends the request.
LEMMA UpdateSafe ==
  ASSUME OneAtATime, Inv, NEW h \in Handlers, NEW new, NEW call, Update(h, new, call), UNCHANGED platform,
         call \in {"idle", "dropSecret"},
         ingress # None /\ job[h].copy = ingress =>
           /\ IsObject(new)
           /\ \A t \in new.tls : t.secret \in secrets
           /\ call = "dropSecret" => \A t \in new.tls : t.secret # SecretName(h)
  PROVE  Inv'
<1>1. CASE ingress # None /\ job[h].fresh /\ Write(h, new, call)
  <2>1. job[h].fresh = TRUE => job[h].copy = ingress
    BY DEF Inv, Copied
  <2> QED BY <1>1, <2>1, WriteSafe
<1>2. CASE Return(h) /\ UNCHANGED ingress
  BY <1>2, ReturnSafe DEF cluster
<1> QED BY <1>1, <1>2 DEF Update

LEMMA DeployWritesSafe ==
  ASSUME OneAtATime, Inv, NEW h \in Handlers, CreateIngress(h) \/ UpdateIngress(h)
  PROVE  Inv'
<1>1. CASE CreateIngress(h)
  <2>1. CASE Return(h) /\ UNCHANGED ingress
    BY <1>1, <2>1, ReturnSafe DEF CreateIngress, cluster
  <2>2. CASE Write(h, [rules |-> job[h].source, tls |-> {}], "idle")
    <3> DEFINE new == [rules |-> job[h].source, tls |-> {}]
    <3>1. IsObject(new) /\ new.tls = {}
      BY DEF IsObject
    <3>2. Write(h, new, "idle") /\ UNCHANGED platform
      BY <1>1, <2>2 DEF CreateIngress
    <3> HIDE DEF new
    <3> QED BY <3>1, <3>2, WriteSafe
  <2> QED BY <1>1, <2>1, <2>2 DEF CreateIngress
<1>2. CASE UpdateIngress(h)
  <2> DEFINE new == [job[h].copy EXCEPT !.rules = Merge(h).rules]
  <2>1. ASSUME ingress # None, job[h].copy = ingress
        PROVE  IsObject(new) /\ \A t \in new.tls : t.secret \in secrets
    <3>1. IsObject(ingress) /\ \A t \in ingress.tls : t.secret \in secrets
      BY <2>1 DEF Inv, Shaped, TLSHasSecret
    <3> QED BY <2>1, <3>1 DEF IsObject
  <2>2. Update(h, new, "idle") /\ UNCHANGED platform
    BY <1>2 DEF UpdateIngress
  <2> HIDE DEF new
  <2> QED BY <2>1, <2>2, UpdateSafe
<1> QED BY <1>1, <1>2

LEMMA CertWritesSafe ==
  ASSUME OneAtATime, Inv, NEW h \in Handlers, PutCert(h) \/ DropCert(h)
  PROVE  Inv'
<1>1. CASE PutCert(h)
  <2> DEFINE new == [job[h].copy EXCEPT !.tls = WithCert(@, SecretName(h), job[h].domain)]
  <2>1. ASSUME ingress # None, job[h].copy = ingress
        PROVE  IsObject(new) /\ \A t \in new.tls : t.secret \in secrets
    <3>1. IsObject(ingress) /\ \A t \in ingress.tls : t.secret \in secrets
      BY <2>1 DEF Inv, Shaped, TLSHasSecret
    <3>2. SecretName(h) \in secrets
      BY <1>1 DEF PutCert, Inv, Backed
    <3>3. \A t \in WithCert(ingress.tls, SecretName(h), job[h].domain) : t.secret \in secrets
      BY <3>1, <3>2 DEF WithCert
    <3>4. IsObject(new) /\ new.tls = WithCert(ingress.tls, SecretName(h), job[h].domain)
      BY <2>1, <3>1 DEF IsObject
    <3> QED BY <3>3, <3>4
  <2>2. Update(h, new, "idle") /\ UNCHANGED platform
    BY <1>1 DEF PutCert
  <2> HIDE DEF new
  <2> QED BY <2>1, <2>2, UpdateSafe
<1>2. CASE DropCert(h)
  <2> DEFINE new == [job[h].copy EXCEPT !.tls = {t \in @ : t.secret # SecretName(h)}]
  <2>1. ASSUME ingress # None, job[h].copy = ingress
        PROVE  IsObject(new) /\ \A t \in new.tls : t.secret \in secrets /\ t.secret # SecretName(h)
    <3>1. IsObject(ingress) /\ \A t \in ingress.tls : t.secret \in secrets
      BY <2>1 DEF Inv, Shaped, TLSHasSecret
    <3>2. IsObject(new) /\ new.tls = {t \in ingress.tls : t.secret # SecretName(h)}
      BY <2>1, <3>1 DEF IsObject
    <3> QED BY <3>1, <3>2
  <2>2. Update(h, new, "dropSecret") /\ UNCHANGED platform
    BY <1>2 DEF DropCert
  <2> HIDE DEF new
  <2> QED BY <2>1, <2>2, UpdateSafe
<1> QED BY <1>1, <1>2

LEMMA DropIngressSafe ==
  ASSUME OneAtATime, Inv, NEW h \in Handlers, DropIngress(h)
  PROVE  Inv'
<1>1. PICK new \in {None, ingress} : Write(h, new, IF provider = "aws" THEN "removeController" ELSE "idle")
  BY DEF DropIngress
<1>2. PICK call \in {"idle", "removeController"} : Write(h, new, call)
  BY <1>1
<1>3. new # None => IsObject(new) /\ \A t \in new.tls : t.secret \in secrets
  BY DEF Inv, Shaped, TLSHasSecret
<1>4. services = {} /\ UNCHANGED platform
  BY DEF DropIngress, Inv, Cleared
<1> QED BY <1>2, <1>3, <1>4, WriteSafe

LEMMA PanicSafe ==
  ASSUME OneAtATime, Inv, NEW h \in Handlers, MergePanics(h)
  PROVE  Inv'
<1>1. /\ DOMAIN pc' = Handlers /\ DOMAIN job' = Handlers
      /\ \A k \in Handlers : pc'[k] = "idle" /\ job'[k] = NoJob
  BY DEF MergePanics
<1>2. UNCHANGED cluster
  BY DEF MergePanics
<1>3. Shaped' /\ Copied'
  BY <1>1, <1>2, NoJobIs DEF Inv, Shaped, Copied, cluster
<1>4. TLSHasSecret' /\ Backed' /\ Cleared' /\ Built'
  BY <1>1, <1>2 DEF Inv, TLSHasSecret, Backed, Cleared, Built, At, cluster, platform
<1> QED BY <1>3, <1>4 DEF Inv

------------------------------------------------------------------------------
(* Theorems                                                                 *)

LEMMA StutterSafe ==
  ASSUME Inv, UNCHANGED vars
  PROVE  Inv'
<1>1. Shaped' /\ Copied' /\ TLSHasSecret'
  BY DEF Inv, Shaped, Copied, TLSHasSecret, vars
<1>2. Backed' /\ Cleared' /\ Built'
  BY DEF Inv, Backed, Cleared, Built, SecretName, At, vars
<1> QED BY <1>1, <1>2 DEF Inv

LEMMA InvHolds == OneAtATime => (Spec => []Inv)
<1> SUFFICES ASSUME OneAtATime
             PROVE  Spec => []Inv
  OBVIOUS
<1>1. Init => Inv
  <2>1. Init => Shaped /\ Copied
    BY NoJobIs DEF Init, Shaped, Copied
  <2>2. Init => TLSHasSecret /\ Backed /\ Cleared /\ Built
    BY DEF Init, TLSHasSecret, Backed, Cleared, Built, At
  <2> QED BY <2>1, <2>2 DEF Inv
<1>2. Inv /\ [Next]_vars => Inv'
  <2> SUFFICES ASSUME Inv, [Next]_vars
               PROVE  Inv'
    OBVIOUS
  <2>1. ASSUME NEW h \in Handlers, Request(h) \/ Step(h)
        PROVE  Inv'
    <3>1. CASE Request(h)
      BY <3>1, RequestSafe
    <3>2. CASE CreateOrUpdateService(h)
      BY <3>2, ServiceSafe
    <3>3. CASE setupRBACRoles(h) \/ setupDefaultBackend(h) \/ setupIngressController(h)
      BY <3>3, ControllerSafe
    <3>4. CASE GetIngress(h) \/ GetForCert(h) \/ GetForUncert(h)
      BY <3>4, GetSafe
    <3>5. CASE CreateIngress(h) \/ UpdateIngress(h)
      BY <3>5, DeployWritesSafe
    <3>6. CASE MergePanics(h)
      BY <3>6, PanicSafe
    <3>7. CASE PutSecret(h)
      BY <3>7, PutSecretSafe
    <3>8. CASE PutCert(h) \/ DropCert(h)
      BY <3>8, CertWritesSafe
    <3>9. CASE DropSecret(h)
      BY <3>9, DropSecretSafe
    <3>10. CASE Unserve(h)
      BY <3>10, UnserveSafe
    <3>11. CASE LastService(h)
      BY <3>11, LastServiceSafe
    <3>12. CASE DropIngress(h)
      BY <3>12, DropIngressSafe
    <3>13. CASE RemoveController(h)
      BY <3>13, RemoveControllerSafe
    <3>14. CASE Fail(h)
      BY <3>14, ReturnSafe DEF Fail
    <3> QED
      BY <2>1, <3>1, <3>2, <3>3, <3>4, <3>5, <3>6, <3>7, <3>8, <3>9, <3>10, <3>11, <3>12, <3>13, <3>14
      DEF Step
  <2> QED BY <2>1, StutterSafe DEF Next
<1> QED BY <1>1, <1>2, PTL DEF Spec

\* A certificate that the shared object names is there, whichever call of an
\* earlier request has failed.
THEOREM CertificatesAreThere == OneAtATime => (Spec => []TLSHasSecret)
<1> SUFFICES ASSUME OneAtATime
             PROVE  Spec => []TLSHasSecret
  OBVIOUS
<1>1. Inv => TLSHasSecret
  BY DEF Inv
<1> QED BY <1>1, InvHolds, PTL

ControllerKept ==
  controller \subseteq controller' /\ asleep' \subseteq asleep

LEMMA SetupStep ==
  ASSUME NEW h, NEW pieces, NEW next, Setup(h, pieces, next)
  PROVE  ingress' = ingress /\ ControllerKept
  BY DEF Setup, ControllerKept

\* What a step does to the shared object and to the controller.
LEMMA PlatformSteps ==
  ASSUME NEW h \in Handlers, Request(h) \/ Step(h)
  PROVE  \/ ingress' = ingress /\ ControllerKept
         \/ ingress' = ingress /\ RemoveController(h)
         \/ UNCHANGED <<controller, asleep>> /\ (DropIngress(h) \/ CreateIngress(h) \/ UpdateIngress(h))
         \/ UNCHANGED <<controller, asleep>> /\ (PutCert(h) \/ DropCert(h))
<1>1. CASE Request(h)
  BY <1>1 DEF ControllerKept, Request, Deploy, CertificateSet, CertificateDelete, DeleteApp, cluster, platform
<1>2. CASE setupRBACRoles(h) \/ setupDefaultBackend(h) \/ setupIngressController(h)
  BY <1>2, SetupStep DEF setupRBACRoles, setupDefaultBackend, setupIngressController
<1>3. CASE CreateOrUpdateService(h) \/ PutSecret(h) \/ DropSecret(h) \/ Unserve(h)
  BY <1>3 DEF ControllerKept, CreateOrUpdateService, PutSecret, DropSecret, Unserve
<1>4. CASE GetIngress(h) \/ GetForCert(h) \/ GetForUncert(h) \/ MergePanics(h) \/ LastService(h) \/ Fail(h)
  BY <1>4 DEF ControllerKept, GetIngress, GetForCert, GetForUncert, MergePanics, LastService, Fail, cluster, platform
<1>5. CASE RemoveController(h)
  BY <1>5 DEF RemoveController
<1>6. CASE DropIngress(h) \/ CreateIngress(h) \/ UpdateIngress(h) \/ PutCert(h) \/ DropCert(h)
  BY <1>6 DEF DropIngress, CreateIngress, UpdateIngress, PutCert, DropCert, platform
<1> QED BY <1>1, <1>2, <1>3, <1>4, <1>5, <1>6 DEF Step

\* An update writes an object, or nothing.
LEMMA UpdateIs ==
  ASSUME Inv, NEW h \in Handlers, NEW new, NEW call, Update(h, new, call)
  PROVE  ingress' = ingress \/ (ingress # None /\ job[h].copy = ingress /\ ingress' = new)
<1>1. job[h].fresh = TRUE => job[h].copy = ingress
  BY DEF Inv, Copied
<1> QED BY <1>1 DEF Update, Write

\* Deleting an app leaves the routes of the others alone, and their controller in
\* place and at its scale, whichever call of an earlier request has failed.
THEOREM OthersStayRouted == OneAtATime => (Spec => DeleteSparesRoutes)
<1> SUFFICES ASSUME OneAtATime
             PROVE  Spec => DeleteSparesRoutes
  OBVIOUS
<1> DEFINE Spared == \/ services = {}
                     \/ /\ ingress' = None => ingress = None
                        /\ controller \subseteq controller' /\ asleep' \subseteq asleep
<1>1. ASSUME Inv, OverlapInv, NEW h \in Handlers, Request(h) \/ Step(h)
      PROVE  Spared
  <2>1. CASE ingress' = ingress /\ ControllerKept
    BY <2>1 DEF ControllerKept
  <2>2. CASE RemoveController(h) \/ DropIngress(h)
    BY <1>1, <2>2 DEF RemoveController, DropIngress, Inv, Cleared
  <2>3. CASE CreateIngress(h) /\ UNCHANGED <<controller, asleep>>
    BY <2>3 DEF CreateIngress, Write
  <2>4. CASE UpdateIngress(h) /\ UNCHANGED <<controller, asleep>>
    <3>1. ingress' = ingress \/ (ingress # None /\ job[h].copy = ingress /\ ingress' = Merged(h))
      BY <1>1, <2>4, UpdateIs DEF UpdateIngress, Merged
    <3>2. pc[h] # "idle"
      BY <2>4 DEF UpdateIngress, At
    <3> QED BY <1>1, <2>4, <3>1, <3>2, MergedIs, NoObjectAssumption
  <2>5. CASE PutCert(h) /\ UNCHANGED <<controller, asleep>>
    <3>1. ingress' = ingress \/ (ingress # None /\ job[h].copy = ingress /\ ingress' = Certified(h))
      BY <1>1, <2>5, UpdateIs DEF PutCert, Certified, WithTLS
    <3>2. pc[h] \in CertCalls
      BY <2>5 DEF PutCert, At, CertCalls
    <3> QED BY <1>1, <2>5, <3>1, <3>2, CertObjects, NoObjectAssumption
  <2>6. CASE DropCert(h) /\ UNCHANGED <<controller, asleep>>
    <3>1. ingress' = ingress \/ (ingress # None /\ job[h].copy = ingress /\ ingress' = Uncertified(h))
      BY <1>1, <2>6, UpdateIs DEF DropCert, Uncertified, WithTLS
    <3>2. pc[h] \in CertCalls
      BY <2>6 DEF DropCert, At, CertCalls
    <3> QED BY <1>1, <2>6, <3>1, <3>2, CertObjects, NoObjectAssumption
  <2> QED BY <1>1, <2>1, <2>2, <2>3, <2>4, <2>5, <2>6, PlatformSteps
<1>2. Inv /\ OverlapInv /\ [Next]_vars => [Spared]_vars
  BY <1>1 DEF Next
<1>3. Spec => [][Spared]_vars
  BY <1>2, InvHolds, OverlapInvHolds, PTL DEF Spec
<1> QED BY <1>3 DEF DeleteSparesRoutes

\* No rule is written to the shared object before every piece of the controller
\* that serves it exists, whichever piece an earlier deploy or cleanup has failed
\* at.  It says nothing of replicas: a cleanup can leave a Deployment asleep, and a
\* deploy takes it as it is.
THEOREM ControllerComesFirst == OneAtATime => (Spec => ControllerBeforeRoutes)
<1> SUFFICES ASSUME OneAtATime
             PROVE  Spec => ControllerBeforeRoutes
  OBVIOUS
<1> DEFINE First == provider = "aws" /\ Routes(ingress') \ Routes(ingress) # {} => controller = Pieces
<1>1. ASSUME Inv, NEW h \in Handlers, Request(h) \/ Step(h)
      PROVE  First
  <2>1. CASE ingress' = ingress
    BY <2>1
  <2>2. CASE DropIngress(h)
    BY <2>2 DEF DropIngress, Write, Routes
  <2>3. CASE CreateIngress(h) \/ UpdateIngress(h)
    BY <1>1, <2>3 DEF CreateIngress, UpdateIngress, Inv, Built
  <2>4. CASE PutCert(h)
    <3>1. ingress' = ingress \/ (ingress # None /\ job[h].copy = ingress
             /\ ingress' = [job[h].copy EXCEPT !.tls = WithCert(@, SecretName(h), job[h].domain)])
      BY <1>1, <2>4, UpdateIs DEF PutCert
    <3>2. ingress # None => IsObject(ingress)
      BY <1>1 DEF Inv, Shaped
    <3> QED BY <2>1, <3>1, <3>2 DEF Routes, IsObject
  <2>5. CASE DropCert(h)
    <3>1. ingress' = ingress \/ (ingress # None /\ job[h].copy = ingress
             /\ ingress' = [job[h].copy EXCEPT !.tls = {t \in @ : t.secret # SecretName(h)}])
      BY <1>1, <2>5, UpdateIs DEF DropCert
    <3>2. ingress # None => IsObject(ingress)
      BY <1>1 DEF Inv, Shaped
    <3> QED BY <2>1, <3>1, <3>2 DEF Routes, IsObject
  <2> QED BY <1>1, <2>1, <2>2, <2>3, <2>4, <2>5, PlatformSteps
<1>2. Inv /\ [Next]_vars => [First]_vars
  BY <1>1 DEF Next
<1>3. Spec => [][First]_vars
  BY <1>2, InvHolds, PTL DEF Spec
<1> QED BY <1>3 DEF ControllerBeforeRoutes
==============================================================================
