---------------------------- MODULE IntakeProofs ----------------------------
(***************************************************************************)
(* Proofs about modules Gateway and Intake, for any window, limits and     *)
(* number of requests, and for any plan, text and conversation.            *)
(*                                                                         *)
(* Gateway.  The window holds times, the log requests.  The invariant says *)
(* which request each time is of (Recorded): the times are, in order,      *)
(* those of requests that passed, and a passed request has no time there   *)
(* only if it is over a minute old.  What is left after the old ones are   *)
(* popped is then as long as there are requests that passed within the     *)
(* minute.                                                                 *)
(*                                                                         *)
(* Intake.  What is read is what one of its functions makes of the input   *)
(* (Reading), so that each property is one of a function.                  *)
(***************************************************************************)
EXTENDS Gateway, Intake, FiniteSetTheorems, SequenceTheorems, WellFoundedInduction, TLAPS

-----------------------------------------------------------------------------
(* Induction, and the least and the greatest of a set of numbers.          *)

\* What holds of 0 and passes from each number to the next one holds up to n.
LEMMA FromZero ==
  ASSUME NEW n \in Nat, NEW T, 0 \in T, \A k \in 1..n : k - 1 \in T => k \in T
  PROVE  \A k \in 0..n : k \in T
<1> DEFINE Bad == {k \in 0..n : k \notin T}
<1>1. SUFFICES ASSUME Bad # {} PROVE FALSE
  OBVIOUS
<1>2. Bad \subseteq Nat
  BY SMT
<1>3. PICK k \in Bad : \A m \in Bad : ~(m < k)
  <2> HIDE DEF Bad
  <2>1. PICK k \in Bad : \A m \in Bad : ~(<<m, k>> \in OpToRel(<, Nat))
    BY <1>1, <1>2, NatLessThanWellFounded, WFMin, Zenon
  <2>2. \A m \in Bad : ~(m < k)
    BY <1>2, <2>1 DEF OpToRel
  <2> QED BY <2>2
<1>4. k \in 1..n
  OBVIOUS
<1>5. k - 1 \in Bad
  BY <1>4
<1> QED BY <1>3, <1>4, <1>5

LEMMA LeastExists ==
  ASSUME NEW S \in SUBSET Nat, S # {}
  PROVE  Min(S) \in S /\ \A y \in S : Min(S) <= y
<1>1. PICK x \in S : \A y \in S : x <= y
  <2>1. PICK x \in S : \A y \in S : ~(<<y, x>> \in OpToRel(<, Nat))
    BY NatLessThanWellFounded, WFMin, Zenon
  <2>2. \A y \in S : ~(y < x)
    BY <2>1 DEF OpToRel
  <2>3. \A y \in S : x <= y
    BY <2>2
  <2> QED BY <2>3
<1> QED BY <1>1 DEF Min

\* A non-empty set of numbers up to a bound has a greatest.
LEMMA Greatest ==
  ASSUME NEW n \in Nat, NEW S, S \subseteq 0..n, S # {}
  PROVE  \E x \in S : \A y \in S : y <= x
<1> DEFINE T == {m \in 0..n : n - m \in S}
<1>1. T \subseteq Nat /\ T # {}
  <2>1. PICK x \in S : TRUE
    OBVIOUS
  <2>2. x \in 0..n /\ n - x \in 0..n /\ n - (n - x) = x
    OBVIOUS
  <2>3. n - x \in T
    BY <2>2
  <2>4. T \subseteq Nat
    OBVIOUS
  <2> QED BY <2>3, <2>4
<1> HIDE DEF T
<1>2. PICK m \in T : \A y \in T : ~(<<y, m>> \in OpToRel(<, Nat))
  BY <1>1, NatLessThanWellFounded, WFMin, Zenon
<1>3. \A y \in T : ~(y < m)
  BY <1>1, <1>2 DEF OpToRel
<1>4. n - m \in S /\ m \in 0..n
  BY DEF T
<1>5. ASSUME NEW y \in S PROVE y <= n - m
  <2>1. y \in 0..n /\ n - y \in 0..n /\ n - (n - y) = y
    OBVIOUS
  <2>2. n - y \in T
    BY <2>1 DEF T
  <2>3. ~(n - y < m)
    BY <1>3, <2>2
  <2> QED BY <1>4, <2>1, <2>3
<1> QED BY <1>4, <1>5

LEMMA GreatestExists ==
  ASSUME NEW n \in Nat, NEW S \in SUBSET (0..n), S # {}
  PROVE  Max(S) \in S /\ \A y \in S : Max(S) >= y
<1>1. PICK x \in S : \A y \in S : y <= x
  BY Greatest
<1>2. \A y \in S : x >= y
  <2> TAKE y \in S
  <2>1. y \in Nat /\ x \in Nat /\ y <= x
    BY <1>1
  <2> QED BY <2>1
<1> QED BY <1>2 DEF Max

LEMMA GreatestIs ==
  ASSUME NEW S \in SUBSET Int, NEW x \in S, \A y \in S : y <= x
  PROVE  Max(S) = x
<1>1. \E z \in S : \A y \in S : z >= y
  <2>1. \A y \in S : x >= y
    OBVIOUS
  <2> QED BY <2>1
<1>2. Max(S) \in S /\ \A y \in S : Max(S) >= y
  BY <1>1 DEF Max
<1>3. Max(S) \in Int /\ x \in Int /\ x <= Max(S) /\ Max(S) <= x
  BY <1>2
<1> QED BY <1>3

LEMMA LeastIs ==
  ASSUME NEW S \in SUBSET Int, NEW x \in S, \A y \in S : x <= y
  PROVE  Min(S) = x
<1>1. \E z \in S : \A y \in S : z <= y
  <2>1. \A y \in S : x <= y
    OBVIOUS
  <2> QED BY <2>1
<1>2. Min(S) \in S /\ \A y \in S : Min(S) <= y
  BY <1>1 DEF Min
<1>3. Min(S) \in Int /\ x \in Int /\ x >= Min(S) /\ Min(S) >= x
  BY <1>2
<1> QED BY <1>3

-----------------------------------------------------------------------------
(* Gateway: the invariant.                                                 *)

Requests == [at : Nat, passed : BOOLEAN]

GTypeOK ==
  /\ now \in Nat /\ now >= Minute
  /\ entry \in Settings
  /\ bucket \in [limit : Nat, window : Seq(Nat), made : BOOLEAN]
  /\ inflight \in [Limits -> Nat]
  /\ log \in Seq(Requests)

\* Requests are counted in the order of the clock.
Chronicle ==
  /\ \A k \in 1..Len(log) : log[k].at <= now
  /\ \A k, m \in 1..Len(log) : k <= m => log[k].at <= log[m].at

\* f says which of the requests in l each time in w is of.
Matches(f, w, l) ==
  /\ f \in [1..Len(w) -> 1..Len(l)]
  /\ \A a, b \in 1..Len(w) : a < b => f[a] < f[b]
  /\ \A a \in 1..Len(w) : l[f[a]].passed /\ w[a] = l[f[a]].at

Recorded ==
  \E f : /\ Matches(f, bucket.window, log)
         /\ \A k \in 1..Len(log) :
              log[k].passed => \/ log[k].at + Minute < now
                               \/ \E a \in 1..Len(bucket.window) : f[a] = k

GInv ==
  /\ GTypeOK
  /\ Chronicle
  /\ ~bucket.made => log = <<>> /\ bucket.window = <<>>
  /\ Recorded
  /\ RateIsExact

-----------------------------------------------------------------------------
(* The window.                                                             *)

\* What the loop pops is a beginning of the window, all of it over a minute old,
\* and the entry after it is not.
LEMMA PurgedAt ==
  ASSUME NEW w \in Seq(Nat), GTypeOK
  PROVE  \E n \in 0..Len(w) :
           /\ Purged(w) = SubSeq(w, n + 1, Len(w))
           /\ \A k \in 1..n : w[k] + Minute < now
           /\ n < Len(w) => w[n + 1] + Minute >= now
<1>1. Len(w) \in Nat /\ \A k \in 1..Len(w) : w[k] \in Nat
  BY LenProperties, ElementOfSeq
<1>2. Minute \in Nat /\ now \in Nat
  BY GatewayAssumption DEF GTypeOK
<1>3. 0 \in Outdated(w) /\ Outdated(w) \subseteq 0..Len(w)
  BY <1>1 DEF Outdated
<1>4. PICK n \in Outdated(w) : /\ n = CHOOSE k \in Outdated(w) : \A m \in Outdated(w) : m <= k
                               /\ \A m \in Outdated(w) : m <= n
  BY <1>1, <1>3, Greatest
<1>5. n \in 0..Len(w) /\ \A k \in 1..n : w[k] < now - Minute
  BY <1>4 DEF Outdated
<1>6. \A k \in 1..n : w[k] + Minute < now
  BY <1>1, <1>2, <1>5
<1>7. ASSUME n < Len(w), ~(w[n + 1] + Minute >= now)
      PROVE  FALSE
  <2>1. n + 1 \in 1..Len(w) /\ w[n + 1] \in Nat
    BY <1>1, <1>5, <1>7
  <2>2. w[n + 1] < now - Minute
    BY <1>2, <1>7, <2>1
  <2>3. \A k \in 1..n + 1 : k \in 1..n \/ k = n + 1
    BY <1>5
  <2>4. n + 1 \in Outdated(w)
    BY <1>1, <1>5, <2>1, <2>2, <2>3 DEF Outdated
  <2>5. n + 1 <= n /\ n \in Nat
    BY <1>1, <1>4, <1>5, <2>4
  <2> QED BY <2>5
<1>8. Purged(w) = SubSeq(w, n + 1, Len(w))
  BY <1>4 DEF Purged
<1> QED BY <1>5, <1>6, <1>7, <1>8

\* The requests that passed within the minute that ends now.
PassedLately == {k \in 1..Len(log) : log[k].passed /\ log[k].at + Minute >= now}

\* The purged window has a time for each of them and no others.
LEMMA PurgedCounts ==
  ASSUME GInv
  PROVE  LET recent == Purged(bucket.window)
         IN  /\ recent \in Seq(Nat)
             /\ IsFiniteSet(PassedLately) /\ Cardinality(PassedLately) = Len(recent)
             /\ \E g : /\ Matches(g, recent, log)
                       /\ \A k \in PassedLately : \E a \in 1..Len(recent) : g[a] = k
<1> DEFINE w == bucket.window
           recent == Purged(w)
<1>1. w \in Seq(Nat) /\ Len(w) \in Nat /\ \A k \in 1..Len(w) : w[k] \in Nat
  BY LenProperties, ElementOfSeq DEF GInv, GTypeOK
<1>2. Minute \in Nat /\ now \in Nat /\ log \in Seq(Requests)
      /\ Len(log) \in Nat /\ \A k \in 1..Len(log) : log[k].at \in Nat
  <2>1. Minute \in Nat /\ now \in Nat /\ log \in Seq(Requests)
    BY GatewayAssumption DEF GInv, GTypeOK
  <2>2. Len(log) \in Nat /\ \A k \in 1..Len(log) : log[k] \in Requests
    BY <2>1, LenProperties, ElementOfSeq
  <2> QED BY <2>1, <2>2 DEF Requests
<1>3. PICK n \in 0..Len(w) : /\ recent = SubSeq(w, n + 1, Len(w))
                             /\ \A k \in 1..n : w[k] + Minute < now
                             /\ n < Len(w) => w[n + 1] + Minute >= now
  BY <1>1, PurgedAt DEF GInv
<1>4. PICK f : /\ Matches(f, w, log)
               /\ \A k \in 1..Len(log) :
                    log[k].passed => \/ log[k].at + Minute < now
                                     \/ \E a \in 1..Len(w) : f[a] = k
  BY DEF GInv, Recorded
<1> HIDE DEF w, recent
<1>5. recent \in Seq(Nat) /\ Len(recent) = Len(w) - n
      /\ \A a \in 1..Len(w) - n : recent[a] = w[a + n]
  <2>1. \A i \in n + 1..Len(w) : w[i] \in Nat
    BY <1>1
  <2>2. n + 1 \in Int /\ Len(w) \in Int
    BY <1>1
  <2>3. /\ recent \in Seq(Nat)
        /\ Len(recent) = IF n + 1 <= Len(w) THEN Len(w) - (n + 1) + 1 ELSE 0
        /\ \A i \in 1..Len(w) - (n + 1) + 1 : recent[i] = w[n + 1 + i - 1]
    BY <1>3, <2>1, <2>2, SubSeqProperties
  <2>4. \A a \in 1..Len(w) - n : n + 1 + a - 1 = a + n /\ a \in 1..Len(w) - (n + 1) + 1
    BY <1>1
  <2> QED BY <1>1, <2>3, <2>4
<1> DEFINE g == [a \in 1..Len(recent) |-> f[a + n]]
<1>6. \A a \in 1..Len(recent) : a + n \in 1..Len(w) /\ a \in Nat /\ n \in Nat /\ 1 <= a
  BY <1>1, <1>5
<1>7. Matches(g, recent, log)
  <2>1. g \in [1..Len(recent) -> 1..Len(log)]
    BY <1>4, <1>6 DEF Matches
  <2>2. ASSUME NEW a \in 1..Len(recent), NEW b \in 1..Len(recent), a < b
        PROVE  g[a] < g[b]
    <3>1. a + n < b + n
      BY <2>2
    <3> QED BY <1>4, <1>6, <3>1 DEF Matches
  <2>3. ASSUME NEW a \in 1..Len(recent)
        PROVE  log[g[a]].passed /\ recent[a] = log[g[a]].at
    BY <1>4, <1>5, <1>6 DEF Matches
  <2> QED BY <2>1, <2>2, <2>3 DEF Matches
<1>8. ASSUME NEW a \in 1..Len(recent) PROVE g[a] \in PassedLately
  <2>1. /\ g[a] \in 1..Len(log) /\ log[g[a]].passed /\ recent[a] = log[g[a]].at
    BY <1>7 DEF Matches
  <2>2. n + 1 \in 1..Len(w) /\ w[n + 1] + Minute >= now
    BY <1>1, <1>3, <1>5
  <2>3. f[n + 1] <= f[a + n] /\ f[n + 1] \in 1..Len(log) /\ f[a + n] \in 1..Len(log)
    <3>1. n + 1 = a + n \/ n + 1 < a + n
      BY <1>6
    <3>2. a + n \in 1..Len(w) /\ n + 1 \in 1..Len(w)
      BY <1>6, <2>2
    <3>3. f[n + 1] \in 1..Len(log) /\ f[a + n] \in 1..Len(log)
      BY <1>4, <3>2 DEF Matches
    <3>4. n + 1 < a + n => f[n + 1] < f[a + n]
      BY <1>4, <3>2 DEF Matches
    <3>5. f[n + 1] \in Nat /\ f[a + n] \in Nat
      BY <1>2, <3>3
    <3> QED BY <3>1, <3>3, <3>4, <3>5
  <2>4. log[f[n + 1]].at <= log[f[a + n]].at /\ w[n + 1] = log[f[n + 1]].at
    BY <1>4, <2>2, <2>3 DEF GInv, Chronicle, Matches
  <2>5. log[g[a]].at + Minute >= now
    <3>1. g[a] = f[a + n]
      OBVIOUS
    <3>2. /\ log[f[n + 1]].at \in Nat /\ log[f[a + n]].at \in Nat
          /\ log[f[n + 1]].at + Minute >= now
      BY <1>2, <2>2, <2>3, <2>4
    <3>3. \A x, y \in Nat : x <= y /\ x + Minute >= now => y + Minute >= now
      BY <1>2
    <3>4. log[f[a + n]].at + Minute >= now
      BY <2>4, <3>2, <3>3
    <3> QED BY <3>1, <3>4
  <2> QED BY <2>1, <2>5 DEF PassedLately
<1>9. ASSUME NEW k \in PassedLately
      PROVE  \E a \in 1..Len(recent) : g[a] = k
  <2>1. k \in 1..Len(log) /\ log[k].passed /\ log[k].at + Minute >= now
    BY DEF PassedLately
  <2>2. PICK a \in 1..Len(w) : f[a] = k
    BY <1>2, <1>4, <2>1
  <2>3. a > n
    <3>1. w[a] = log[k].at
      BY <1>4, <2>2 DEF Matches
    <3> QED BY <1>1, <1>2, <1>3, <2>1, <3>1
  <2>4. a - n \in 1..Len(recent) /\ a - n + n = a
    BY <1>1, <1>5, <2>3
  <2>5. g[a - n] = k
    BY <2>2, <2>4
  <2> QED BY <2>4, <2>5
<1>10. g \in Bijection(1..Len(recent), PassedLately)
  <2>1. g \in [1..Len(recent) -> PassedLately]
    BY <1>8
  <2>2. \A a, b \in 1..Len(recent) : g[a] = g[b] => a = b
    <3> SUFFICES ASSUME NEW a \in 1..Len(recent), NEW b \in 1..Len(recent), a # b
                 PROVE  g[a] # g[b]
      OBVIOUS
    <3>1. a < b \/ b < a
      OBVIOUS
    <3>2. g[a] \in Nat /\ g[b] \in Nat
      <4>1. g[a] \in 1..Len(log) /\ g[b] \in 1..Len(log)
        BY <1>7 DEF Matches
      <4> HIDE DEF g
      <4> QED BY <1>2, <4>1
    <3> HIDE DEF g
    <3> QED BY <1>7, <3>1, <3>2 DEF Matches
  <2>3. g \in Injection(1..Len(recent), PassedLately)
    BY <2>1, <2>2 DEF Injection, IsInjective
  <2>4. g \in Surjection(1..Len(recent), PassedLately)
    BY <2>1, <1>9 DEF Surjection
  <2> QED BY <2>3, <2>4 DEF Bijection
<1>11. IsFiniteSet(PassedLately) /\ Cardinality(PassedLately) = Len(recent)
  <2>1. Len(recent) \in Nat /\ ExistsBijection(1..Len(recent), PassedLately)
    BY <1>5, <1>10, LenProperties DEF ExistsBijection
  <2> QED BY <2>1, FS_NatBijection, FS_CountingElements
<1> HIDE DEF g
<1> QED BY <1>5, <1>7, <1>9, <1>11 DEF recent, w
-----------------------------------------------------------------------------
(* The invariant.                                                          *)

LEMMA GInitOK == GInit => GInv
<1> SUFFICES ASSUME GInit PROVE GInv
  OBVIOUS
<1>1. /\ now = Minute /\ entry \in Settings /\ log = <<>>
      /\ bucket = [limit |-> 0, window |-> <<>>, made |-> FALSE]
      /\ inflight = [l \in Limits |-> 0]
  BY DEF GInit, NoBucket
<1>2. <<>> \in Seq(Nat) /\ <<>> \in Seq(Requests) /\ Len(<<>>) = 0 /\ bucket.window = <<>>
  BY <1>1, EmptySeq
<1>3. 1..0 = {}
  OBVIOUS
<1>4. GTypeOK
  BY <1>1, <1>2, GatewayAssumption DEF GTypeOK
<1>5. Chronicle /\ RateIsExact
  BY <1>1, <1>2, <1>3 DEF Chronicle, RateIsExact
<1>6. Recorded
  <2>1. Matches([a \in {} |-> 0], bucket.window, log)
    BY <1>1, <1>2, <1>3 DEF Matches
  <2> QED BY <1>1, <1>2, <1>3, <2>1 DEF Recorded
<1> QED BY <1>1, <1>4, <1>5, <1>6 DEF GInv

\* Steps that count nothing.
LEMMA ClockOK ==
  ASSUME GInv, now' \in Nat, now' >= now, entry' \in Settings, inflight' \in [Limits -> Nat],
         UNCHANGED <<bucket, log>>
  PROVE  GInv'
<1>1. Minute \in Nat /\ now \in Nat /\ now >= Minute /\ log \in Seq(Requests)
  BY GatewayAssumption DEF GInv, GTypeOK
<1>2. \A k \in 1..Len(log) : log[k].at \in Nat
  <2>1. \A k \in 1..Len(log) : log[k] \in Requests
    BY <1>1, ElementOfSeq
  <2> QED BY <2>1 DEF Requests
<1>3. GTypeOK'
  BY <1>1 DEF GInv, GTypeOK
<1>4. Chronicle'
  BY <1>1, <1>2 DEF GInv, Chronicle
<1>5. Recorded'
  <2>1. PICK f : /\ Matches(f, bucket.window, log)
                 /\ \A k \in 1..Len(log) :
                      log[k].passed => \/ log[k].at + Minute < now
                                       \/ \E a \in 1..Len(bucket.window) : f[a] = k
    BY DEF GInv, Recorded
  <2>2. \A k \in 1..Len(log) : log[k].at + Minute < now => log[k].at + Minute < now'
    BY <1>1, <1>2
  <2> QED BY <2>1, <2>2 DEF Recorded
<1>6. RateIsExact'
  BY DEF GInv, RateIsExact, PassedBefore
<1> QED BY <1>3, <1>4, <1>5, <1>6 DEF GInv

\* Once a request is counted, log is log with it and the bucket is made.
LEMMA CountOK ==
  ASSUME GInv, NEW l \in Limits, Count(l)
  PROVE  GInv'
<1> DEFINE b == Bucket(l)
           recent == Purged(b.window)
           passes == Len(recent) < b.limit
           n == Len(log)
<1>1. /\ log' = Append(log, [at |-> now, passed |-> passes])
      /\ bucket' = [b EXCEPT !.window = IF passes THEN Append(recent, now) ELSE recent]
      /\ inflight' = [inflight EXCEPT ![l] = @ - 1] /\ inflight[l] > 0
      /\ UNCHANGED <<now, entry>>
  BY DEF Count
<1>2. /\ b \in [limit : Nat, window : Seq(Nat), made : BOOLEAN] /\ b.made
      /\ b.window = bucket.window
      /\ bucket.made => b = bucket
  <2>1. <<>> \in Seq(Nat) /\ l \in Nat
    BY EmptySeq, GatewayAssumption
  <2> QED BY <2>1 DEF Bucket, GInv, GTypeOK
<1>3. recent = Purged(bucket.window)
  BY <1>2
<1> HIDE DEF b, recent, passes
<1>4. /\ recent \in Seq(Nat) /\ Len(recent) \in Nat
      /\ IsFiniteSet(PassedLately) /\ Cardinality(PassedLately) = Len(recent)
  BY <1>3, PurgedCounts, LenProperties
<1>5. PICK g : /\ Matches(g, recent, log)
               /\ \A k \in PassedLately : \E a \in 1..Len(recent) : g[a] = k
  BY <1>3, PurgedCounts
<1>6. /\ Minute \in Nat /\ now \in Nat /\ now >= Minute /\ log \in Seq(Requests)
      /\ n \in Nat /\ \A k \in 1..n : log[k] \in Requests
  BY GatewayAssumption, LenProperties, ElementOfSeq DEF GInv, GTypeOK
<1>7. \A k \in 1..n : log[k].at \in Nat
  BY <1>6 DEF Requests
<1>8. /\ [at |-> now, passed |-> passes] \in Requests
      /\ log' \in Seq(Requests) /\ Len(log') = n + 1
      /\ \A k \in 1..n : log'[k] = log[k]
      /\ log'[n + 1] = [at |-> now, passed |-> passes]
  <2>1. [at |-> now, passed |-> passes] \in Requests
    BY <1>6 DEF Requests, passes
  <2> QED BY <1>1, <1>6, <2>1, AppendProperties
<1>9. /\ passes => /\ bucket'.window \in Seq(Nat) /\ Len(bucket'.window) = Len(recent) + 1
                   /\ \A a \in 1..Len(recent) : bucket'.window[a] = recent[a]
                   /\ bucket'.window[Len(recent) + 1] = now
      /\ ~passes => bucket'.window = recent
      /\ bucket'.limit = b.limit /\ bucket'.made = b.made
      /\ bucket' \in [limit : Nat, window : Seq(Nat), made : BOOLEAN]
  <2>1. bucket'.window = IF passes THEN Append(recent, now) ELSE recent
    BY <1>1, <1>2
  <2>2. /\ Append(recent, now) \in Seq(Nat) /\ Len(Append(recent, now)) = Len(recent) + 1
        /\ \A a \in 1..Len(recent) : Append(recent, now)[a] = recent[a]
        /\ Append(recent, now)[Len(recent) + 1] = now
    BY <1>4, <1>6, AppendProperties
  <2> QED BY <1>1, <1>2, <1>4, <2>1, <2>2
<1>10. GTypeOK'
  <2>1. inflight' \in [Limits -> Nat]
    <3>1. inflight \in [Limits -> Nat]
      BY DEF GInv, GTypeOK
    <3>2. inflight[l] - 1 \in Nat
      BY <1>1, <3>1
    <3> QED BY <1>1, <3>1, <3>2
  <2> QED BY <1>1, <1>6, <1>8, <1>9, <2>1 DEF GInv, GTypeOK
<1>11. Chronicle'
  <2>1. \A k \in 1..n + 1 : k \in 1..n \/ k = n + 1
    BY <1>6
  <2>2. \A k \in 1..n + 1 : log'[k].at <= now /\ log'[k].at \in Nat
    BY <1>6, <1>7, <1>8, <2>1 DEF GInv, Chronicle
  <2>3. ASSUME NEW k \in 1..n + 1, NEW m \in 1..n + 1, k <= m
        PROVE  log'[k].at <= log'[m].at
    <3>1. CASE m = n + 1
      BY <1>8, <2>2, <3>1
    <3>2. CASE m \in 1..n
      <4>1. k \in 1..n
        BY <1>6, <2>3, <3>2
      <4> QED BY <1>8, <2>3, <3>2, <4>1 DEF GInv, Chronicle
    <3> QED BY <2>1, <3>1, <3>2
  <2> QED BY <1>1, <1>8, <2>2, <2>3 DEF Chronicle
<1>12. Recorded'
  <2>1. n + 1 \notin 1..n /\ \A k \in 1..n + 1 : k \in 1..n \/ k = n + 1
    BY <1>6
  <2>2. ASSUME NEW k \in 1..n, log[k].passed
        PROVE  log[k].at + Minute < now \/ \E a \in 1..Len(recent) : g[a] = k
    <3>1. log[k].at + Minute < now \/ log[k].at + Minute >= now
      BY <1>6, <1>7
    <3>2. log[k].at + Minute >= now => k \in PassedLately
      BY <2>2 DEF PassedLately
    <3> QED BY <1>5, <3>1, <3>2
  <2>3. CASE ~passes
    <3>1. Matches(g, recent, log')
      <4>1. \A k \in 1..n : k \in 1..n + 1
        BY <1>6
      <4>2. g \in [1..Len(recent) -> 1..n + 1]
        BY <1>5, <4>1 DEF Matches
      <4>3. \A a \in 1..Len(recent) : log'[g[a]] = log[g[a]]
        BY <1>5, <1>8 DEF Matches
      <4> QED BY <1>5, <1>8, <4>2, <4>3 DEF Matches
    <3>2. ~log'[n + 1].passed
      BY <1>8, <2>3
    <3> QED BY <1>1, <1>8, <1>9, <2>1, <2>2, <2>3, <3>1, <3>2 DEF Recorded
  <2>4. CASE passes
    <3> DEFINE h == [a \in 1..Len(recent) + 1 |-> IF a = Len(recent) + 1 THEN n + 1 ELSE g[a]]
    <3>1. /\ \A a \in 1..Len(recent) + 1 : a \in 1..Len(recent) \/ a = Len(recent) + 1
          /\ \A a \in 1..Len(recent) : a \in 1..Len(recent) + 1 /\ a # Len(recent) + 1
          /\ Len(recent) + 1 \in 1..Len(recent) + 1
      BY <1>4
    <3>2. /\ \A a \in 1..Len(recent) : h[a] = g[a] /\ g[a] \in 1..n
          /\ h[Len(recent) + 1] = n + 1
          /\ DOMAIN h = 1..Len(recent) + 1
      BY <1>5, <3>1 DEF Matches
    <3>3. h \in [1..Len(recent) + 1 -> 1..n + 1]
      BY <1>5, <1>6, <3>1 DEF Matches
    <3> HIDE DEF h
    <3>4. ASSUME NEW a \in 1..Len(recent) + 1, NEW c \in 1..Len(recent) + 1, a < c
          PROVE  h[a] < h[c]
      <4>1. a \in 1..Len(recent)
        BY <1>4, <3>4
      <4>2. CASE c = Len(recent) + 1
        BY <1>6, <3>2, <4>1, <4>2
      <4>3. CASE c \in 1..Len(recent)
        BY <1>5, <3>2, <3>4, <4>1, <4>3 DEF Matches
      <4> QED BY <3>1, <4>2, <4>3
    <3>5. ASSUME NEW a \in 1..Len(recent) + 1
          PROVE  log'[h[a]].passed /\ bucket'.window[a] = log'[h[a]].at
      <4>1. CASE a \in 1..Len(recent)
        <5>1. h[a] = g[a] /\ log'[h[a]] = log[g[a]] /\ bucket'.window[a] = recent[a]
          BY <1>8, <1>9, <2>4, <3>2, <4>1
        <5>2. log[g[a]].passed /\ recent[a] = log[g[a]].at
          BY <1>5, <4>1 DEF Matches
        <5> QED BY <5>1, <5>2
      <4>2. CASE a = Len(recent) + 1
        <5>1. h[a] = n + 1 /\ bucket'.window[a] = now
          <6>1. h[Len(recent) + 1] = n + 1
            BY <3>2
          <6>2. bucket'.window[Len(recent) + 1] = now
            BY <1>9, <2>4
          <6> QED BY <4>2, <6>1, <6>2
        <5>2. log'[n + 1].passed /\ log'[n + 1].at = now
          BY <1>8, <2>4
        <5> QED BY <5>1, <5>2
      <4> QED BY <3>1, <4>1, <4>2
    <3>6. Matches(h, bucket'.window, log')
      BY <1>8, <1>9, <2>4, <3>3, <3>4, <3>5 DEF Matches
    <3>7. ASSUME NEW k \in 1..n + 1, log'[k].passed
          PROVE  log'[k].at + Minute < now \/ \E a \in 1..Len(recent) + 1 : h[a] = k
      <4>1. CASE k = n + 1
        BY <3>1, <3>2, <4>1
      <4>2. CASE k \in 1..n
        <5>1. log'[k] = log[k]
          BY <1>8, <4>2
        <5> QED BY <2>2, <3>1, <3>2, <3>7, <4>2, <5>1
      <4> QED BY <2>1, <4>1, <4>2
    <3>8. Len(log') = n + 1 /\ Len(bucket'.window) = Len(recent) + 1 /\ now' = now
      BY <1>1, <1>8, <1>9, <2>4
    <3>9. \A k \in 1..Len(log') :
            log'[k].passed => \/ log'[k].at + Minute < now'
                              \/ \E a \in 1..Len(bucket'.window) : h[a] = k
      BY <3>7, <3>8
    <3> QED BY <3>6, <3>9 DEF Recorded
  <2> QED BY <2>3, <2>4
<1>13. RateIsExact'
  <2>1. DOMAIN log' = 1..n + 1 /\ DOMAIN log = 1..n
    BY <1>6, <1>8, LenProperties
  <2>2. ASSUME NEW i \in 1..n
        PROVE  log'[i].passed <=> Cardinality(PassedBefore(i)') < bucket'.limit
    <3>1. i \in Nat /\ 1..i - 1 \subseteq 1..n /\ n # 0
      BY <1>6
    <3>2. PassedBefore(i)' = PassedBefore(i)
      BY <1>8, <3>1 DEF PassedBefore
    <3>3. bucket.made
      <4>1. log # <<>>
        BY <3>1, EmptySeq
      <4> QED BY <4>1 DEF GInv
    <3>4. bucket'.limit = bucket.limit
      BY <1>2, <1>9, <3>3
    <3> QED BY <1>8, <2>1, <3>2, <3>4 DEF GInv, RateIsExact
  <2>3. ASSUME NEW i, i = n + 1
        PROVE  log'[i].passed <=> Cardinality(PassedBefore(i)') < bucket'.limit
    <3>1. i - 1 = n
      BY <1>6, <2>3
    <3>2. PassedBefore(i)' = PassedLately
      <4>1. log'[i].at = now
        BY <1>8, <2>3
      <4>2. \A k \in 1..n : log'[k] = log[k]
        BY <1>8
      <4>3. PassedBefore(i)' = {k \in 1..i - 1 : log'[k].passed /\ log'[k].at + Minute >= log'[i].at}
        BY DEF PassedBefore
      <4> QED BY <3>1, <4>1, <4>2, <4>3 DEF PassedLately
    <3>3. log'[i].passed <=> Len(recent) < b.limit
      <4>1. log'[i].passed = passes
        BY <1>8, <2>3
      <4> QED BY <4>1 DEF passes
    <3> QED BY <1>4, <1>9, <3>2, <3>3
  <2>4. ASSUME NEW i \in DOMAIN log'
        PROVE  log'[i].passed <=> Cardinality(PassedBefore(i)') < bucket'.limit
    <3>1. i \in 1..n \/ i = n + 1
      BY <1>6, <2>1
    <3> QED BY <2>2, <2>3, <3>1
  <2> QED BY <2>4 DEF RateIsExact
<1>14. bucket'.made
  BY <1>2, <1>9
<1> QED BY <1>10, <1>11, <1>12, <1>13, <1>14 DEF GInv

LEMMA GInvariance == GSpec => []GInv
<1>1. ASSUME GInv, [GNext]_gvars PROVE GInv'
  <2>1. Minute \in Nat /\ now \in Nat
    BY <1>1, GatewayAssumption DEF GInv, GTypeOK
  <2>2. CASE Tick
    <3>1. now' \in Nat /\ now' >= now
      BY <2>1, <2>2 DEF Tick
    <3> QED BY <1>1, <2>2, <3>1, ClockOK DEF Tick, GInv, GTypeOK
  <2>3. CASE Replace
    <3>1. now' = now /\ now' >= now
      BY <2>1, <2>3 DEF Replace
    <3>2. entry' \in Settings
      BY <2>3 DEF Replace
    <3> QED BY <1>1, <2>1, <2>3, <3>1, <3>2, ClockOK DEF Replace, GInv, GTypeOK
  <2>4. ASSUME NEW key, Arrive(key) PROVE GInv'
    <3>1. now' = now /\ now' >= now /\ entry' = entry /\ UNCHANGED <<bucket, log>>
      BY <2>1, <2>4 DEF Arrive
    <3>2. inflight' \in [Limits -> Nat]
      <4>1. inflight \in [Limits -> Nat]
        BY <1>1 DEF GInv, GTypeOK
      <4>2. inflight' = [l \in Limits |-> IF l = entry.limit THEN inflight[l] + 1 ELSE inflight[l]]
        BY <2>4, <4>1 DEF Arrive
      <4> QED BY <4>1, <4>2
    <3> QED BY <1>1, <2>1, <3>1, <3>2, ClockOK DEF GInv, GTypeOK
  <2>5. ASSUME NEW l \in Unserved, Count(l) PROVE GInv'
    <3>1. l \in Limits
      BY DEF Unserved
    <3> QED BY <1>1, <2>5, <3>1, CountOK
  <2>6. CASE UNCHANGED gvars
    <3>1. now' = now /\ now' >= now
      BY <2>1, <2>6 DEF gvars
    <3> QED BY <1>1, <2>1, <2>6, <3>1, ClockOK DEF gvars, GInv, GTypeOK
  <2> QED BY <1>1, <2>2, <2>3, <2>4, <2>5, <2>6 DEF GNext
<1> QED BY <1>1, GInitOK, PTL DEF GSpec

-----------------------------------------------------------------------------
(* Theorems.                                                               *)

\* gateway_chat: whatever the window, the limits and the requests, and however
\* often the agent's entry is replaced between a request's two locks, a request
\* passes exactly if fewer than the limit have passed within the minute.
THEOREM TheLimitIsExact == GSpec => []RateIsExact
<1>1. GInv => RateIsExact
  BY DEF GInv
<1> QED BY <1>1, GInvariance, PTL

-----------------------------------------------------------------------------
(* What is read is what arrived.                                           *)

\* The output, once there is one, is that of the function for the input.
Reading ==
  /\ input \in Plans \cup Texts \cup Conversations
  /\ \/ output = Unknown
     \/ input \in Plans /\ output = [errors |-> Errors(input.plan), store |-> Materialized(input.plan)]
     \/ /\ input \in Texts
        /\ LET text == input.before \o input.block \o input.after
           IN  output = [decision |-> ParseReviewDecision(text), json |-> ExtractJson(text)]
     \/ input \in Conversations /\ output = [saved |-> TruncateHistory(input.history, input.max)]

LEMMA KindsOfInput ==
  /\ \A x \in Plans : x.kind = "plan"
  /\ \A x \in Texts : x.kind = "text"
  /\ \A x \in Conversations : x.kind = "history"
<1>1. \A x \in Plans : x.kind = "plan"
  BY DEF Plans
<1>2. \A x \in Texts : x.kind = "text"
  BY DEF Texts
<1>3. \A x \in Conversations : x.kind = "history"
  BY DEF Conversations
<1> QED BY <1>1, <1>2, <1>3

LEMMA ReadingHolds == ISpec => []Reading
<1>1. IInit => Reading
  BY DEF IInit, Reading
<1>2. Reading /\ [Read]_ivars => Reading'
  <2> SUFFICES ASSUME Reading, [Read]_ivars PROVE Reading'
    OBVIOUS
  <2>0. input \in Plans \cup Texts \cup Conversations
    BY DEF Reading
  <2>1. CASE ReadPlan
    <3>1. input \in Plans /\ input' = input
      BY <2>0, <2>1, KindsOfInput, Zenon DEF ReadPlan
    <3> QED BY <2>1, <3>1, Zenon DEF ReadPlan, Reading
  <2>2. CASE ReadText
    <3>1. input \in Texts /\ input' = input
      BY <2>0, <2>2, KindsOfInput, Zenon DEF ReadText
    <3> QED BY <2>2, <3>1, Zenon DEF ReadText, Reading
  <2>3. CASE SaveHistory
    <3>1. input \in Conversations /\ input' = input
      BY <2>0, <2>3, KindsOfInput, Zenon DEF SaveHistory
    <3> QED BY <2>3, <3>1, Zenon DEF SaveHistory, Reading
  <2>4. CASE UNCHANGED ivars
    BY <2>4 DEF ivars, Reading
  <2> QED BY <2>1, <2>2, <2>3, <2>4 DEF Read
<1> QED BY <1>1, <1>2, PTL DEF ISpec

\* What is done with an input is done by the function for its kind.
LEMMA KindsAreDisjoint ==
  /\ Done("plan") /\ Reading => /\ input \in Plans
                                /\ output = [errors |-> Errors(input.plan), store |-> Materialized(input.plan)]
  /\ Done("text") /\ Reading =>
       /\ input \in Texts
       /\ LET text == input.before \o input.block \o input.after
          IN  output = [decision |-> ParseReviewDecision(text), json |-> ExtractJson(text)]
  /\ Done("history") /\ Reading =>
       /\ input \in Conversations
       /\ output = [saved |-> TruncateHistory(input.history, input.max)]
<1>1. "plan" # "text" /\ "plan" # "history" /\ "text" # "history"
  OBVIOUS
<1> QED BY <1>1, KindsOfInput, Zenon DEF Done, Reading

-----------------------------------------------------------------------------
(* Histories.                                                              *)

LEMMA EvenSuffix ==
  ASSUME NEW n \in Nat, NEW m \in Nat, n > m
  PROVE  /\ 2 * (m \div 2) \in Nat
         /\ 2 * (m \div 2) <= m
         /\ 2 * (m \div 2) >= m - 1
         /\ n % 2 = 0 => (n - 2 * (m \div 2) + 1) % 2 = 1
BY Z3

LEMMA TruncatedHistory ==
  ASSUME NEW h \in Conversations
  PROVE  LET q == h.history
             s == TruncateHistory(q, h.max)
         IN  /\ s = SubSeq(q, Len(q) - Len(s) + 1, Len(q))
             /\ h.max # NoMaximum => Len(s) <= h.max /\ (s = q \/ Len(s) >= h.max - 1)
             /\ Len(q) % 2 = 0 /\ s # <<>> => s[1] = "question"
<1> DEFINE Says == {"question", "answer"}
           q == h.history
           s == TruncateHistory(q, h.max)
           m == 2 * (h.max \div 2)
<1>1. q \in Seq(Says) /\ h.max \in Nat \cup {NoMaximum}
  BY DEF Conversations
<1>2. \A i \in DOMAIN q : q[i] = IF i % 2 = 1 THEN "question" ELSE "answer"
  BY DEF Conversations
<1>3. Len(q) \in Nat /\ DOMAIN q = 1..Len(q) /\ \A i \in 1..Len(q) : q[i] \in Says
  BY <1>1, LenProperties
<1> HIDE DEF q
<1>4. CASE h.max = NoMaximum \/ Len(q) <= h.max
  <2>1. s = q
    BY <1>4 DEF TruncateHistory
  <2>2. q = SubSeq(q, Len(q) - Len(q) + 1, Len(q))
    <3>1. Len(q) - Len(q) + 1 = 1
      BY <1>3
    <3> QED BY <3>1, <1>1, SubSeqFull
  <2>3. q # <<>> => q[1] = "question"
    <3>1. q # <<>> => 1 \in DOMAIN q
      BY <1>1, <1>3, EmptySeq
    <3>2. 1 % 2 = 1
      OBVIOUS
    <3> QED BY <1>2, <3>1, <3>2
  <2>4. h.max # NoMaximum => Len(q) <= h.max
    BY <1>4
  <2> QED BY <2>1, <2>2, <2>3, <2>4 DEF q
<1>5. CASE h.max # NoMaximum /\ ~(Len(q) <= h.max)
  <2>1. h.max \in Nat /\ Len(q) > h.max
    BY <1>1, <1>3, <1>5
  <2>2. /\ m \in Nat /\ m <= h.max /\ m >= h.max - 1
        /\ Len(q) % 2 = 0 => (Len(q) - m + 1) % 2 = 1
    BY <1>3, <2>1, EvenSuffix
  <2>3. s = SubSeq(q, Len(q) - m + 1, Len(q))
    BY <1>5 DEF TruncateHistory
  <2> HIDE DEF m, s
  <2>4. /\ Len(q) - m + 1 \in 1..Len(q) + 1 /\ Len(q) - m + 1 \in Int
        /\ Len(q) - (Len(q) - m + 1) + 1 = m
    BY <1>3, <2>1, <2>2
  <2>5. \A i \in Len(q) - m + 1..Len(q) : q[i] \in Says
    BY <1>3, <2>4
  <2>6. /\ Len(s) = IF Len(q) - m + 1 <= Len(q) THEN Len(q) - (Len(q) - m + 1) + 1 ELSE 0
        /\ \A i \in 1..Len(q) - (Len(q) - m + 1) + 1 : s[i] = q[Len(q) - m + 1 + i - 1]
        /\ s \in Seq(Says)
    BY <1>3, <2>3, <2>4, <2>5, SubSeqProperties
  <2>7. Len(s) = m
    BY <1>3, <2>2, <2>4, <2>6
  <2>8. Len(q) % 2 = 0 /\ s # <<>> => s[1] = "question"
    <3> SUFFICES ASSUME Len(q) % 2 = 0, s # <<>> PROVE s[1] = "question"
      OBVIOUS
    <3>1. m > 0
      BY <2>2, <2>6, <2>7, EmptySeq
    <3>2. 1 \in 1..m /\ Len(q) - m + 1 + 1 - 1 = Len(q) - m + 1 /\ Len(q) - m + 1 \in DOMAIN q
      BY <1>3, <2>2, <2>4, <3>1
    <3>3. s[1] = q[Len(q) - m + 1]
      BY <2>4, <2>6, <3>2
    <3> QED BY <1>2, <2>2, <3>2, <3>3
  <2> QED BY <2>1, <2>2, <2>3, <2>7, <2>8 DEF s, q
<1> QED BY <1>4, <1>5

\* truncate_history keeps the end of a conversation, for any length and maximum.
THEOREM ConversationsAreKept == ISpec => []HistoryKeepsPairs
<1>1. Reading => HistoryKeepsPairs
  <2> SUFFICES ASSUME Reading, Done("history") PROVE HistoryKeepsPairs
    BY DEF HistoryKeepsPairs
  <2>1. input \in Conversations /\ output = [saved |-> TruncateHistory(input.history, input.max)]
    BY KindsAreDisjoint, Zenon
  <2>2. output.saved = TruncateHistory(input.history, input.max)
    BY <2>1
  <2> QED BY <2>1, <2>2, TruncatedHistory, Zenon DEF HistoryKeepsPairs
<1> QED BY <1>1, ReadingHolds, PTL

-----------------------------------------------------------------------------
(* Names and ids.                                                          *)

IdsIn(q) == {q[i].id : i \in DOMAIN q}

\* The entry of a name that a map keeps is the last one.
LEMMA LastOfName ==
  ASSUME NEW q, NEW n \in Nat, DOMAIN q = 1..n, NEW name \in IdsIn(q)
  PROVE  LET last == Max({i \in DOMAIN q : q[i].id = name})
         IN  /\ last \in 1..n
             /\ q[last].id = name
             /\ \A i \in 1..n : q[i].id = name => i <= last
<1> DEFINE S == {i \in DOMAIN q : q[i].id = name}
<1>1. S \in SUBSET (0..n) /\ S # {}
  BY DEF IdsIn
<1>2. Max(S) \in S /\ \A y \in S : Max(S) >= y
  <2> HIDE DEF S
  <2> QED BY <1>1, GreatestExists
<1>3. \A i \in 1..n : q[i].id = name => i <= Max(S)
  <2> SUFFICES ASSUME NEW i \in 1..n, q[i].id = name PROVE i <= Max(S)
    OBVIOUS
  <2>1. i \in S
    OBVIOUS
  <2>2. Max(S) \in 0..n /\ i \in 0..n /\ Max(S) >= i
    <3> HIDE DEF S
    <3> QED BY <1>1, <1>2, <2>1
  <2> HIDE DEF S
  <2> QED BY <2>2
<1> QED BY <1>2, <1>3

LEMMA DistinctIds ==
  ASSUME NEW q, NEW n \in Nat, DOMAIN q = 1..n
  PROVE  Cardinality(IdsIn(q)) = n <=> ~HasRepeats(q)
<1> DEFINE f == [i \in 1..n |-> q[i].id]
<1>1. f \in Surjection(1..n, IdsIn(q))
  BY DEF Surjection, IdsIn
<1>2. IsFiniteSet(1..n) /\ Cardinality(1..n) = n
  BY FS_Interval
<1>3. Cardinality(IdsIn(q)) = n <=> f \in Injection(1..n, IdsIn(q))
  <2> HIDE DEF f
  <2> QED BY <1>1, <1>2, FS_Surjection
<1>4. f \in Injection(1..n, IdsIn(q)) <=> \A i, k \in 1..n : f[i] = f[k] => i = k
  BY <1>1 DEF Injection, IsInjective, Surjection
<1>5. (\A i, k \in 1..n : f[i] = f[k] => i = k) <=> ~HasRepeats(q)
  <2>1. ASSUME NEW i \in 1..n, NEW k \in 1..n, ~HasRepeats(q), q[i].id = q[k].id PROVE i = k
    <3>1. ~(i < k) /\ ~(k < i)
      BY <2>1 DEF HasRepeats
    <3> QED BY <3>1
  <2>2. ASSUME \A i, k \in 1..n : q[i].id = q[k].id => i = k, HasRepeats(q) PROVE FALSE
    <3>1. PICK i, k \in DOMAIN q : i < k /\ q[i].id = q[k].id
      BY <2>2 DEF HasRepeats
    <3> QED BY <2>2, <3>1
  <2> QED BY <2>1, <2>2
<1> QED BY <1>3, <1>4, <1>5

-----------------------------------------------------------------------------
(* A plan.                                                                 *)

LEMMA ExecutionPland ==
  ASSUME NEW plan \in ExecutionPlan
  PROVE  /\ Len(plan.jobs) \in Nat /\ DOMAIN plan.jobs = 1..Len(plan.jobs)
         /\ Len(plan.channels) \in Nat /\ DOMAIN plan.channels = 1..Len(plan.channels)
         /\ plan.jobs \in Seq(PlannedJob) /\ plan.channels \in Seq(PlannedChannel)
         /\ \A i \in DOMAIN plan.jobs : plan.jobs[i] \in PlannedJob
         /\ \A i \in DOMAIN plan.channels : plan.channels[i] \in PlannedChannel
<1>1. plan.jobs \in Seq(PlannedJob) /\ plan.channels \in Seq(PlannedChannel)
  BY DEF ExecutionPlan
<1> QED BY <1>1, LenProperties, ElementOfSeq

LEMMA RealIdOf ==
  ASSUME NEW plan \in ExecutionPlan, NEW name \in LocalIds(plan)
  PROVE  /\ RealId(plan, name) \in DOMAIN plan.jobs
         /\ plan.jobs[RealId(plan, name)].id = name
         /\ \A i \in DOMAIN plan.jobs : plan.jobs[i].id = name => i <= RealId(plan, name)
<1>1. LocalIds(plan) = IdsIn(plan.jobs)
  BY DEF LocalIds, IdsIn
<1> QED BY <1>1, ExecutionPland, LastOfName DEF RealId

RealIds(plan) == {RealId(plan, n) : n \in LocalIds(plan)}

\* The id_map loses a job exactly if two have one name.
LEMMA IdsOfJobs ==
  ASSUME NEW plan \in ExecutionPlan
  PROVE  /\ RealIds(plan) \subseteq DOMAIN plan.jobs
         /\ Cardinality(RealIds(plan)) = Len(plan.jobs) <=> ~HasRepeats(plan.jobs)
         /\ ~HasRepeats(plan.jobs) => \A i \in DOMAIN plan.jobs : RealId(plan, plan.jobs[i].id) = i
         /\ ~HasRepeats(plan.jobs) => RealIds(plan) = DOMAIN plan.jobs
<1> DEFINE n == Len(plan.jobs)
<1>1. n \in Nat /\ DOMAIN plan.jobs = 1..n
  BY ExecutionPland
<1>2. RealIds(plan) \subseteq DOMAIN plan.jobs
  BY RealIdOf DEF RealIds
<1>3. \A i \in DOMAIN plan.jobs : plan.jobs[i].id \in LocalIds(plan)
  BY DEF LocalIds
<1> HIDE DEF n
<1>4. ASSUME ~HasRepeats(plan.jobs), NEW i \in DOMAIN plan.jobs PROVE RealId(plan, plan.jobs[i].id) = i
  <2> DEFINE k == RealId(plan, plan.jobs[i].id)
  <2>1. k \in DOMAIN plan.jobs /\ plan.jobs[k].id = plan.jobs[i].id /\ i <= k
    BY <1>3, RealIdOf
  <2> HIDE DEF k
  <2>2. ~(i < k)
    BY <1>4, <2>1 DEF HasRepeats
  <2>3. i = k
    BY <1>1, <2>1, <2>2
  <2> QED BY <2>3 DEF k
<1>5. ASSUME ~HasRepeats(plan.jobs) PROVE RealIds(plan) = DOMAIN plan.jobs
  BY <1>2, <1>3, <1>4, <1>5 DEF RealIds
<1>6. IsFiniteSet(1..n) /\ Cardinality(1..n) = n
  BY <1>1, FS_Interval
<1>7. ASSUME Cardinality(RealIds(plan)) = n, HasRepeats(plan.jobs) PROVE FALSE
  <2>1. RealIds(plan) = 1..n
    BY <1>1, <1>2, <1>6, <1>7, FS_Subset
  <2>2. PICK i, k \in DOMAIN plan.jobs : i < k /\ plan.jobs[i].id = plan.jobs[k].id
    BY <1>7 DEF HasRepeats
  <2>3. PICK name \in LocalIds(plan) : i = RealId(plan, name)
    BY <1>1, <2>1 DEF RealIds
  <2>4. plan.jobs[i].id = name /\ k <= i
    BY <2>2, <2>3, RealIdOf
  <2> QED BY <1>1, <2>2, <2>4
<1>8. Cardinality(RealIds(plan)) = n <=> ~HasRepeats(plan.jobs)
  BY <1>1, <1>5, <1>6, <1>7
<1> QED BY <1>2, <1>4, <1>5, <1>8 DEF n

-----------------------------------------------------------------------------
(* Names that are resolved.                                                *)

\* The equations of the loop.
LEMMA ResolvedRounds ==
  ASSUME NEW plan, NEW names, Len(names) \in Nat
  PROVE  /\ ResolvedUpTo(plan, names)[0] = <<>>
         /\ \A k \in 1..Len(names) :
              ResolvedUpTo(plan, names)[k] =
                IF names[k] \in LocalIds(plan)
                THEN Append(ResolvedUpTo(plan, names)[k - 1], RealId(plan, names[k]))
                ELSE ResolvedUpTo(plan, names)[k - 1]
<1> DEFINE Round(f, k) == IF k = 0 THEN <<>>
                          ELSE IF names[k] \in LocalIds(plan)
                               THEN Append(f[k - 1], RealId(plan, names[k])) ELSE f[k - 1]
           Is(f, n) == f = [k \in 0..n |-> Round(f, k)]
           T == {n \in 0..Len(names) : \E f : Is(f, n)}
<1>1. 0 \in T
  <2>1. Is([k \in 0..0 |-> <<>>], 0)
    OBVIOUS
  <2> HIDE DEF Is
  <2> QED BY <2>1
<1>2. ASSUME NEW n \in 1..Len(names), n - 1 \in T PROVE n \in T
  <2>1. PICK f : Is(f, n - 1)
    BY <1>2
  <2> DEFINE g == [k \in 0..n |-> IF k = n THEN Round(f, n) ELSE f[k]]
  <2>2. ASSUME NEW k \in 0..n PROVE g[k] = Round(g, k)
    <3>1. CASE k = n
      BY <3>1
    <3>2. CASE k \in 0..n - 1
      <4>1. f[k] = Round(f, k) /\ g[k] = f[k]
        BY <2>1, <3>2
      <4>2. k # 0 => g[k - 1] = f[k - 1]
        BY <3>2
      <4> HIDE DEF g
      <4> QED BY <4>1, <4>2
    <3> QED BY <3>1, <3>2
  <2>3. Is(g, n)
    <3>1. g = [k \in 0..n |-> g[k]]
      OBVIOUS
    <3> HIDE DEF g, Round
    <3> QED BY <2>2, <3>1
  <2> HIDE DEF Is
  <2> QED BY <2>3
<1>3. \E f : Is(f, Len(names))
  <2> HIDE DEF T
  <2>1. \A k \in 0..Len(names) : k \in T
    BY <1>1, <1>2, FromZero
  <2> QED BY <2>1 DEF T
<1> DEFINE r == ResolvedUpTo(plan, names)
<1>4. Is(r, Len(names))
  BY <1>3 DEF ResolvedUpTo
<1> HIDE DEF r
<1>5. \A k \in 0..Len(names) : r[k] = Round(r, k)
  BY <1>4
<1>6. r[0] = <<>>
  BY <1>5
<1>7. ASSUME NEW k \in 1..Len(names)
      PROVE  r[k] = IF names[k] \in LocalIds(plan)
                    THEN Append(r[k - 1], RealId(plan, names[k])) ELSE r[k - 1]
  <2>1. k \in 0..Len(names) /\ k # 0
    OBVIOUS
  <2> QED BY <1>5, <2>1
<1> QED BY <1>6, <1>7 DEF r

LEMMA RangeOfAppend ==
  ASSUME NEW S, NEW q \in Seq(S), NEW x \in S
  PROVE  Range(Append(q, x)) = Range(q) \cup {x}
<1>1. /\ Append(q, x) \in Seq(S)
      /\ Len(Append(q, x)) = Len(q) + 1
      /\ \A i \in 1..Len(q) : Append(q, x)[i] = q[i]
      /\ Append(q, x)[Len(q) + 1] = x
  BY AppendProperties
<1>2. Len(q) \in Nat /\ DOMAIN q = 1..Len(q) /\ DOMAIN Append(q, x) = 1..Len(q) + 1
  BY <1>1, LenProperties
<1>3. Range(Append(q, x)) \subseteq Range(q) \cup {x}
  BY <1>1, <1>2 DEF Range
<1>4. Range(q) \cup {x} \subseteq Range(Append(q, x))
  BY <1>1, <1>2 DEF Range
<1> QED BY <1>3, <1>4

\* Names without an id are the only ones that get lost.
LEMMA ResolvedIs ==
  ASSUME NEW plan \in ExecutionPlan, NEW names \in Seq(STRING)
  PROVE  LET r == Resolved(plan, names)
         IN  /\ r \in Seq(DOMAIN plan.jobs)
             /\ NamesOf(plan, r) = names <=> Range(names) \subseteq LocalIds(plan)
             /\ NamesOf(plan, r) = names => Len(r) = Len(names)
             /\ Range(r) = {RealId(plan, n) : n \in Range(names) \cap LocalIds(plan)}
<1> DEFINE J == DOMAIN plan.jobs
           r == ResolvedUpTo(plan, names)
           m == Len(names)
           Good(k) == /\ r[k] \in Seq(J)
                      /\ Len(r[k]) <= k
                      /\ Len(r[k]) = k <=> \A i \in 1..k : names[i] \in LocalIds(plan)
                      /\ Len(r[k]) = k => \A i \in 1..k : r[k][i] = RealId(plan, names[i])
                      /\ Range(r[k]) = {RealId(plan, n) : n \in {names[i] : i \in 1..k} \cap LocalIds(plan)}
           T == {k \in 0..m : Good(k)}
<1>0. m \in Nat /\ DOMAIN names = 1..m
  BY LenProperties
<1>1. /\ r[0] = <<>>
      /\ \A k \in 1..m : r[k] = IF names[k] \in LocalIds(plan)
                               THEN Append(r[k - 1], RealId(plan, names[k])) ELSE r[k - 1]
  BY <1>0, ResolvedRounds
<1> HIDE DEF r
<1>2. 0 \in T
  <2>1. r[0] \in Seq(J) /\ Len(r[0]) = 0 /\ Range(r[0]) = {}
    BY <1>1 DEF Range
  <2>2. 1..0 = {}
    OBVIOUS
  <2> QED BY <1>0, <2>1, <2>2
<1>3. ASSUME NEW k \in 1..m, k - 1 \in T PROVE k \in T
  <2>1. Good(k - 1) /\ k \in 0..m /\ k \in Nat /\ k - 1 \in Nat
    BY <1>0, <1>3
  <2>2. 1..k = (1..k - 1) \cup {k}
    BY <1>0
  <2>3. Len(r[k - 1]) \in Nat /\ Len(r[k - 1]) <= k - 1
    BY <2>1, LenProperties
  <2> DEFINE Before == {names[i] : i \in 1..k - 1}
             Upto == {names[i] : i \in 1..k}
  <2>4. Upto = Before \cup {names[k]}
    BY <2>2
  <2>5. CASE names[k] \in LocalIds(plan)
    <3>1. RealId(plan, names[k]) \in J
      BY <2>5, RealIdOf
    <3>2. r[k] = Append(r[k - 1], RealId(plan, names[k]))
      BY <1>1, <2>5
    <3>3. r[k] \in Seq(J) /\ Len(r[k]) = Len(r[k - 1]) + 1
      <4>1. r[k - 1] \in Seq(J)
        BY <2>1
      <4> HIDE DEF J
      <4> QED BY <3>1, <3>2, <4>1, AppendProperties
    <3>4. Range(r[k]) = Range(r[k - 1]) \cup {RealId(plan, names[k])}
      BY <2>1, <3>1, <3>2, RangeOfAppend
    <3>5. Range(r[k]) = {RealId(plan, n) : n \in Upto \cap LocalIds(plan)}
      <4>1. Range(r[k - 1]) = {RealId(plan, n) : n \in Before \cap LocalIds(plan)}
        BY <2>1
      <4> HIDE DEF Before, Upto
      <4> QED BY <2>4, <2>5, <3>4, <4>1
    <3>6. Len(r[k]) = k <=> Len(r[k - 1]) = k - 1
      BY <2>1, <2>3, <3>3
    <3>7. Len(r[k - 1]) = k - 1 <=> \A i \in 1..k - 1 : names[i] \in LocalIds(plan)
      BY <2>1
    <3>8. Len(r[k]) = k <=> \A i \in 1..k : names[i] \in LocalIds(plan)
      BY <2>2, <2>5, <3>6, <3>7
    <3>9. Len(r[k]) <= k
      BY <2>1, <2>3, <3>3
    <3>10. ASSUME Len(r[k]) = k, NEW i \in 1..k PROVE r[k][i] = RealId(plan, names[i])
      <4>1. /\ \A l \in 1..Len(r[k - 1]) : r[k][l] = r[k - 1][l]
            /\ r[k][Len(r[k - 1]) + 1] = RealId(plan, names[k])
        <5>1. r[k - 1] \in Seq(J)
          BY <2>1
        <5> HIDE DEF J
        <5> QED BY <3>1, <3>2, <5>1, AppendProperties
      <4>2. Len(r[k - 1]) = k - 1
        BY <3>6, <3>10
      <4>3. \A l \in 1..k - 1 : r[k - 1][l] = RealId(plan, names[l])
        BY <2>1, <4>2
      <4> QED BY <2>1, <2>2, <4>1, <4>2, <4>3
    <3> QED BY <2>1, <3>3, <3>5, <3>8, <3>9, <3>10
  <2>6. CASE names[k] \notin LocalIds(plan)
    <3>1. r[k] = r[k - 1]
      BY <1>1, <2>6
    <3>2. Range(r[k]) = {RealId(plan, n) : n \in Upto \cap LocalIds(plan)}
      <4>1. Range(r[k - 1]) = {RealId(plan, n) : n \in Before \cap LocalIds(plan)}
        BY <2>1
      <4> HIDE DEF Before, Upto
      <4> QED BY <2>4, <2>6, <3>1, <4>1
    <3>3. Len(r[k]) # k /\ Len(r[k]) <= k
      BY <2>1, <2>3, <3>1
    <3>4. k \in 1..k
      BY <2>1
    <3> QED BY <2>1, <2>6, <3>1, <3>2, <3>3, <3>4
  <2> QED BY <2>5, <2>6
<1>4. Good(m)
  <2> HIDE DEF T
  <2>1. \A k \in 0..m : k \in T
    BY <1>0, <1>2, <1>3, FromZero
  <2>2. m \in T
    BY <1>0, <2>1
  <2> HIDE DEF Good
  <2> QED BY <2>2 DEF T
<1>5. Range(names) = {names[i] : i \in 1..m}
  BY <1>0 DEF Range
<1>6. Range(names) \subseteq LocalIds(plan) <=> \A i \in 1..m : names[i] \in LocalIds(plan)
  BY <1>5
<1>7. Resolved(plan, names) = r[m]
  BY DEF Resolved, r
<1>8. DOMAIN r[m] = 1..Len(r[m]) /\ Len(r[m]) \in Nat
  BY <1>4, LenProperties
<1>9. \A n \in LocalIds(plan) : RealId(plan, n) \in J /\ plan.jobs[RealId(plan, n)].id = n
  BY RealIdOf
<1> DEFINE back == NamesOf(plan, r[m])
<1>10. DOMAIN back = DOMAIN r[m] /\ \A k \in DOMAIN r[m] : back[k] = plan.jobs[r[m][k]].id
  BY DEF NamesOf
<1>11. ASSUME back = names PROVE Len(r[m]) = m /\ Range(names) \subseteq LocalIds(plan)
  <2>1. DOMAIN r[m] = DOMAIN names
    <3> HIDE DEF back
    <3> QED BY <1>10, <1>11
  <2>2. Len(r[m]) = m
    BY <1>0, <1>8, <2>1
  <2> QED BY <1>4, <1>6, <2>2
<1>12. ASSUME Range(names) \subseteq LocalIds(plan) PROVE back = names
  <2>1. Len(r[m]) = m /\ \A i \in 1..m : r[m][i] = RealId(plan, names[i])
    BY <1>4, <1>6, <1>12
  <2>2. \A i \in 1..m : plan.jobs[r[m][i]].id = names[i]
    BY <1>6, <1>9, <1>12, <2>1
  <2>3. back = [k \in 1..m |-> names[k]]
    BY <1>0, <1>8, <2>1, <2>2 DEF NamesOf
  <2>4. names = [k \in 1..m |-> names[k]]
    BY <1>0
  <2> HIDE DEF back
  <2> QED BY <2>3, <2>4
<1> QED BY <1>4, <1>5, <1>7, <1>11, <1>12

-----------------------------------------------------------------------------
(* What validate_plan asks of a plan.                                      *)

Sound(plan) ==
  /\ plan.jobs # <<>>
  /\ ~HasRepeats(plan.jobs)
  /\ \A i \in DOMAIN plan.jobs :
       /\ ~plan.jobs[i].blank
       /\ Range(plan.jobs[i].deps) \subseteq LocalIds(plan)
       /\ plan.jobs[i].id \notin Range(plan.jobs[i].deps)
  /\ ~HasRepeats(plan.channels)
  /\ \A i \in DOMAIN plan.channels :
       /\ plan.channels[i].members # <<>>
       /\ plan.channels[i].turns => ~(Len(plan.channels[i].members) < 2)
       /\ Range(plan.channels[i].members) \subseteq LocalIds(plan)

LEMMA OtherErrorsAre ==
  ASSUME NEW plan, plan.jobs # <<>>
  PROVE  OtherErrors(plan) = {} <=>
           /\ \A i \in DOMAIN plan.jobs :
                /\ ~plan.jobs[i].blank
                /\ Range(plan.jobs[i].deps) \subseteq LocalIds(plan)
                /\ plan.jobs[i].id \notin Range(plan.jobs[i].deps)
           /\ ~HasRepeats(plan.channels)
           /\ \A i \in DOMAIN plan.channels :
                /\ plan.channels[i].members # <<>>
                /\ plan.channels[i].turns => ~(Len(plan.channels[i].members) < 2)
                /\ Range(plan.channels[i].members) \subseteq LocalIds(plan)
<1> DEFINE jobs == Range(plan.jobs)
           channels == Range(plan.channels)
           C1 == \E j \in jobs : j.blank
           C2 == \E j \in jobs : ~(Range(j.deps) \subseteq LocalIds(plan))
           C3 == \E j \in jobs : j.id \in Range(j.deps)
           C4 == HasRepeats(plan.channels)
           C5 == \E c \in channels : c.members = <<>>
           C6 == \E c \in channels : c.turns /\ Len(c.members) < 2
           C7 == \E c \in channels : ~(Range(c.members) \subseteq LocalIds(plan))
           Sorts == {"empty_field", "unknown_dependency", "self_dependency", "repeated_channel",
                     "no_participants", "one_speaker", "unknown_participant"}
           Found(e) == CASE e = "empty_field" -> C1
                         [] e = "unknown_dependency" -> C2
                         [] e = "self_dependency" -> C3
                         [] e = "repeated_channel" -> C4
                         [] e = "no_participants" -> C5
                         [] e = "one_speaker" -> C6
                         [] e = "unknown_participant" -> C7
<1>1. OtherErrors(plan) = {e \in Sorts : Found(e)}
  BY DEF OtherErrors
<1>2. (\E e \in Sorts : Found(e)) <=> C1 \/ C2 \/ C3 \/ C4 \/ C5 \/ C6 \/ C7
  <2> HIDE DEF C1, C2, C3, C4, C5, C6, C7
  <2>1. Found("empty_field") <=> C1
    OBVIOUS
  <2>2. Found("unknown_dependency") <=> C2
    OBVIOUS
  <2>3. Found("self_dependency") <=> C3
    OBVIOUS
  <2>4. Found("repeated_channel") <=> C4
    OBVIOUS
  <2>5. Found("no_participants") <=> C5
    OBVIOUS
  <2>6. Found("one_speaker") <=> C6
    OBVIOUS
  <2>7. Found("unknown_participant") <=> C7
    OBVIOUS
  <2> HIDE DEF Found
  <2> QED BY <2>1, <2>2, <2>3, <2>4, <2>5, <2>6, <2>7
<1>3. ~(C1 \/ C2 \/ C3) <=> \A i \in DOMAIN plan.jobs :
                /\ ~plan.jobs[i].blank
                /\ Range(plan.jobs[i].deps) \subseteq LocalIds(plan)
                /\ plan.jobs[i].id \notin Range(plan.jobs[i].deps)
  BY Zenon DEF Range
<1>4. ~(C5 \/ C6 \/ C7) <=> \A i \in DOMAIN plan.channels :
                /\ plan.channels[i].members # <<>>
                /\ plan.channels[i].turns => ~(Len(plan.channels[i].members) < 2)
                /\ Range(plan.channels[i].members) \subseteq LocalIds(plan)
  BY Zenon DEF Range
<1> QED BY <1>1, <1>2, <1>3, <1>4

LEMMA NoErrors ==
  ASSUME NEW plan
  PROVE  Errors(plan) = {} <=> Sound(plan)
<1>1. CASE plan.jobs = <<>>
  <2>1. OtherErrors(plan) = {"no_jobs"} /\ Errors(plan) = OtherErrors(plan)
    BY <1>1 DEF OtherErrors, Errors
  <2> QED BY <1>1, <2>1 DEF Sound
<1>2. CASE plan.jobs # <<>>
  <2>1. Errors(plan) = {} <=> OtherErrors(plan) = {} /\ ~HasRepeats(plan.jobs)
    BY <1>2 DEF Errors
  <2> QED BY <1>2, <2>1, OtherErrorsAre DEF Sound
<1> QED BY <1>1, <1>2

-----------------------------------------------------------------------------
(* What materialize_plan makes of a plan.                                  *)

LEMMA MaterializedFields ==
  ASSUME NEW plan
  PROVE  LET jobs == Materialized(plan).jobs
             channels == Materialized(plan).channels
         IN  /\ jobs = [j \in RealIds(plan) |-> Resolved(plan, plan.jobs[j].deps)]
             /\ channels = [n \in IdsIn(plan.channels) |->
                              Resolved(plan, plan.channels[LastChannel(plan, n)].members)]
BY DEF Materialized, RealIds, IdsIn

LEMMA EmptyFunction ==
  ASSUME NEW f, f = [x \in {} |-> f[x]]
  PROVE  f = <<>>
<1>1. f \in [1..0 -> {}]
  BY SMT
<1>2. f \in Seq({}) /\ Len(f) = 0
  BY <1>1
<1> QED BY <1>2, EmptySeq

\* The store gets all of the plan.
Whole(plan) ==
  LET jobs == Materialized(plan).jobs
      channels == Materialized(plan).channels
  IN  /\ jobs # <<>> /\ Cardinality(DOMAIN jobs) = Len(plan.jobs)
      /\ \A j \in DOMAIN jobs :
           /\ ~plan.jobs[j].blank
           /\ NamesOf(plan, jobs[j]) = plan.jobs[j].deps /\ j \notin Range(jobs[j])
      /\ Cardinality(DOMAIN channels) = Len(plan.channels)
      /\ \A i \in DOMAIN plan.channels :
           LET members == channels[plan.channels[i].id]
           IN  /\ NamesOf(plan, members) = plan.channels[i].members
               /\ Len(members) >= IF plan.channels[i].turns THEN 2 ELSE 1

LEMMA StoredJob ==
  ASSUME NEW plan \in ExecutionPlan, ~HasRepeats(plan.jobs), NEW i \in DOMAIN plan.jobs
  PROVE  LET deps == plan.jobs[i].deps
             r == Materialized(plan).jobs[i]
         IN  /\ NamesOf(plan, r) = deps <=> Range(deps) \subseteq LocalIds(plan)
             /\ i \notin Range(r) <=> plan.jobs[i].id \notin Range(deps)
<1> DEFINE deps == plan.jobs[i].deps
           r == Materialized(plan).jobs[i]
<1>1. i \in RealIds(plan) /\ RealId(plan, plan.jobs[i].id) = i
  BY IdsOfJobs
<1>2. r = Resolved(plan, deps)
  <2>1. Materialized(plan).jobs = [j \in RealIds(plan) |-> Resolved(plan, plan.jobs[j].deps)]
    BY MaterializedFields
  <2>2. Materialized(plan).jobs[i] = Resolved(plan, plan.jobs[i].deps)
    BY <1>1, <2>1
  <2> QED BY <2>2
<1>3. deps \in Seq(STRING)
  BY ExecutionPland DEF PlannedJob
<1> HIDE DEF deps, r
<1>4. /\ NamesOf(plan, r) = deps <=> Range(deps) \subseteq LocalIds(plan)
      /\ Range(r) = {RealId(plan, n) : n \in Range(deps) \cap LocalIds(plan)}
  BY <1>2, <1>3, ResolvedIs
<1>5. ASSUME i \in Range(r) PROVE plan.jobs[i].id \in Range(deps)
  <2>1. PICK n \in Range(deps) \cap LocalIds(plan) : i = RealId(plan, n)
    BY <1>4, <1>5
  <2>2. plan.jobs[i].id = n
    BY <2>1, RealIdOf
  <2> QED BY <2>1, <2>2
<1>6. ASSUME plan.jobs[i].id \in Range(deps) PROVE i \in Range(r)
  <2>1. plan.jobs[i].id \in LocalIds(plan)
    BY DEF LocalIds
  <2> QED BY <1>1, <1>4, <1>6, <2>1
<1> QED BY <1>4, <1>5, <1>6 DEF deps, r

LEMMA StoredChannel ==
  ASSUME NEW plan \in ExecutionPlan, ~HasRepeats(plan.channels), NEW i \in DOMAIN plan.channels
  PROVE  LET members == plan.channels[i].members
             r == Materialized(plan).channels[plan.channels[i].id]
         IN  /\ members \in Seq(STRING) /\ Len(members) \in Nat /\ Len(r) \in Nat
             /\ NamesOf(plan, r) = members <=> Range(members) \subseteq LocalIds(plan)
             /\ NamesOf(plan, r) = members => Len(r) = Len(members)
<1> DEFINE members == plan.channels[i].members
           name == plan.channels[i].id
           last == LastChannel(plan, name)
           r == Materialized(plan).channels[name]
<1>1. /\ DOMAIN plan.channels = 1..Len(plan.channels) /\ Len(plan.channels) \in Nat
      /\ name \in IdsIn(plan.channels)
  BY ExecutionPland DEF IdsIn
<1>2. last = i
  <2>1. last \in DOMAIN plan.channels /\ plan.channels[last].id = name /\ i <= last
    BY <1>1, LastOfName DEF LastChannel
  <2> HIDE DEF last
  <2>2. ~(i < last)
    BY <2>1 DEF HasRepeats
  <2> QED BY <1>1, <2>1, <2>2
<1>3. r = Resolved(plan, plan.channels[last].members)
  <2>1. Materialized(plan).channels =
          [n \in IdsIn(plan.channels) |->
            Resolved(plan, plan.channels[LastChannel(plan, n)].members)]
    BY MaterializedFields
  <2> HIDE DEF name
  <2>2. Materialized(plan).channels[name] =
          Resolved(plan, plan.channels[LastChannel(plan, name)].members)
    BY <1>1, <2>1
  <2> QED BY <2>2
<1>4. members \in Seq(STRING)
  BY ExecutionPland DEF PlannedChannel
<1> HIDE DEF last
<1>5. r = Resolved(plan, members)
  BY <1>2, <1>3
<1> HIDE DEF members, name, r
<1>6. /\ r \in Seq(DOMAIN plan.jobs)
      /\ NamesOf(plan, r) = members <=> Range(members) \subseteq LocalIds(plan)
      /\ NamesOf(plan, r) = members => Len(r) = Len(members)
  BY <1>4, <1>5, ResolvedIs
<1>7. Len(r) \in Nat /\ Len(members) \in Nat
  BY <1>4, <1>6, LenProperties
<1> QED BY <1>4, <1>6, <1>7 DEF members, name, r

\* validate_plan accepts what materialize_plan can put into the store as it is.
LEMMA SoundIsWhole ==
  ASSUME NEW plan \in ExecutionPlan
  PROVE  Sound(plan) <=> Whole(plan)
<1> DEFINE jobs == Materialized(plan).jobs
           channels == Materialized(plan).channels
<1>1. DOMAIN jobs = RealIds(plan) /\ DOMAIN channels = IdsIn(plan.channels)
  BY MaterializedFields
<1>2. /\ Cardinality(RealIds(plan)) = Len(plan.jobs) <=> ~HasRepeats(plan.jobs)
      /\ ~HasRepeats(plan.jobs) => RealIds(plan) = DOMAIN plan.jobs
  BY IdsOfJobs
<1>3. Cardinality(IdsIn(plan.channels)) = Len(plan.channels) <=> ~HasRepeats(plan.channels)
  BY ExecutionPland, DistinctIds
<1>4. plan.jobs # <<>> <=> jobs # <<>>
  <2>1. ASSUME plan.jobs = <<>> PROVE jobs = <<>>
    <3>1. RealIds(plan) = {}
      BY <2>1 DEF RealIds, LocalIds
    <3>2. jobs = [j \in {} |-> jobs[j]]
      <4>1. jobs = [j \in RealIds(plan) |-> Resolved(plan, plan.jobs[j].deps)]
        BY MaterializedFields
      <4> HIDE DEF jobs
      <4> QED BY <3>1, <4>1
    <3> HIDE DEF jobs
    <3> QED BY <3>2, EmptyFunction
  <2>2. ASSUME jobs = <<>> PROVE plan.jobs = <<>>
    <3>1. RealIds(plan) = {}
      <4> HIDE DEF jobs
      <4> QED BY <1>1, <2>2
    <3>2. \A i \in DOMAIN plan.jobs : plan.jobs[i].id \in LocalIds(plan)
      BY DEF LocalIds
    <3>3. DOMAIN plan.jobs = {}
      BY <3>1, <3>2 DEF RealIds
    <3>4. plan.jobs \in Seq(PlannedJob) /\ DOMAIN plan.jobs = 1..Len(plan.jobs) /\ Len(plan.jobs) \in Nat
      BY ExecutionPland
    <3>5. ~(1 \in 1..Len(plan.jobs))
      BY <3>3, <3>4
    <3>6. Len(plan.jobs) = 0
      BY <3>4, <3>5
    <3> QED BY <3>4, <3>6, EmptySeq
  <2> QED BY <2>1, <2>2
<1>5. ASSUME ~HasRepeats(plan.channels), NEW i \in DOMAIN plan.channels
      PROVE  LET members == channels[plan.channels[i].id]
             IN  (/\ NamesOf(plan, members) = plan.channels[i].members
                  /\ Len(members) >= IF plan.channels[i].turns THEN 2 ELSE 1)
                 <=> /\ plan.channels[i].members # <<>>
                     /\ plan.channels[i].turns => ~(Len(plan.channels[i].members) < 2)
                     /\ Range(plan.channels[i].members) \subseteq LocalIds(plan)
  <2> DEFINE old == plan.channels[i].members
             new == channels[plan.channels[i].id]
  <2>1. /\ old \in Seq(STRING) /\ Len(old) \in Nat /\ Len(new) \in Nat
        /\ NamesOf(plan, new) = old <=> Range(old) \subseteq LocalIds(plan)
        /\ NamesOf(plan, new) = old => Len(new) = Len(old)
    BY <1>5, StoredChannel
  <2> HIDE DEF old, new
  <2>2. old # <<>> <=> Len(old) >= 1
    BY <2>1, EmptySeq
  <2>3. plan.channels[i].turns \in BOOLEAN
    BY ExecutionPland DEF PlannedChannel
  <2>4. (NamesOf(plan, new) = old /\ Len(new) >= IF plan.channels[i].turns THEN 2 ELSE 1)
          <=> /\ old # <<>>
              /\ plan.channels[i].turns => ~(Len(old) < 2)
              /\ Range(old) \subseteq LocalIds(plan)
    BY <2>1, <2>2, <2>3
  <2> QED BY <2>4 DEF old, new
<1>6. ASSUME ~HasRepeats(plan.jobs), NEW i \in DOMAIN plan.jobs
      PROVE  (NamesOf(plan, jobs[i]) = plan.jobs[i].deps /\ i \notin Range(jobs[i]))
               <=> /\ Range(plan.jobs[i].deps) \subseteq LocalIds(plan)
                   /\ plan.jobs[i].id \notin Range(plan.jobs[i].deps)
  BY <1>6, StoredJob
<1>7. Sound(plan) => Whole(plan)
  <2> HAVE Sound(plan)
  <2> HIDE DEF jobs, channels
  <2>1. /\ jobs # <<>> /\ Cardinality(DOMAIN jobs) = Len(plan.jobs)
        /\ Cardinality(DOMAIN channels) = Len(plan.channels)
    BY <1>1, <1>2, <1>3, <1>4 DEF Sound
  <2>2. ASSUME NEW j \in DOMAIN jobs
        PROVE  /\ ~plan.jobs[j].blank
               /\ NamesOf(plan, jobs[j]) = plan.jobs[j].deps /\ j \notin Range(jobs[j])
    <3>1. j \in DOMAIN plan.jobs
      BY <1>1, <1>2 DEF Sound
    <3> QED BY <1>6, <3>1 DEF Sound
  <2>3. ASSUME NEW i \in DOMAIN plan.channels
        PROVE  LET members == channels[plan.channels[i].id]
               IN  /\ NamesOf(plan, members) = plan.channels[i].members
                   /\ Len(members) >= IF plan.channels[i].turns THEN 2 ELSE 1
    BY <1>5 DEF Sound
  <2> QED BY <2>1, <2>2, <2>3 DEF Whole, jobs, channels
<1>8. Whole(plan) => Sound(plan)
  <2> HAVE Whole(plan)
  <2>1. /\ jobs # <<>> /\ Cardinality(DOMAIN jobs) = Len(plan.jobs)
        /\ Cardinality(DOMAIN channels) = Len(plan.channels)
    BY DEF Whole
  <2>2. \A j \in DOMAIN jobs :
          /\ ~plan.jobs[j].blank
          /\ NamesOf(plan, jobs[j]) = plan.jobs[j].deps /\ j \notin Range(jobs[j])
    BY DEF Whole
  <2>3. \A i \in DOMAIN plan.channels :
          LET members == channels[plan.channels[i].id]
          IN  /\ NamesOf(plan, members) = plan.channels[i].members
              /\ Len(members) >= IF plan.channels[i].turns THEN 2 ELSE 1
    BY DEF Whole
  <2> HIDE DEF jobs, channels
  <2>4. ~HasRepeats(plan.jobs) /\ ~HasRepeats(plan.channels) /\ plan.jobs # <<>>
    BY <1>1, <1>2, <1>3, <1>4, <2>1
  <2>5. ASSUME NEW i \in DOMAIN plan.jobs
        PROVE  /\ ~plan.jobs[i].blank
               /\ Range(plan.jobs[i].deps) \subseteq LocalIds(plan)
               /\ plan.jobs[i].id \notin Range(plan.jobs[i].deps)
    <3>1. i \in DOMAIN jobs
      BY <1>1, <1>2, <2>4
    <3> QED BY <1>6, <2>2, <2>4, <3>1
  <2>6. ASSUME NEW i \in DOMAIN plan.channels
        PROVE  /\ plan.channels[i].members # <<>>
               /\ plan.channels[i].turns => ~(Len(plan.channels[i].members) < 2)
               /\ Range(plan.channels[i].members) \subseteq LocalIds(plan)
    BY <1>5, <2>3, <2>4
  <2> QED BY <2>4, <2>5, <2>6 DEF Sound
<1> QED BY <1>7, <1>8

\* validate_plan finds no fault with a plan exactly if materialize_plan puts all
\* of it into the store, every dependency and every entry of a list of
\* participants, in order, as the job of that name, for plans with any number of
\* jobs and channels.  That two entries name different jobs is not among it.
THEOREM PlansAreAcceptedWhole == ISpec => []ValidPlansMaterialize
<1>1. Reading => ValidPlansMaterialize
  <2> SUFFICES ASSUME Reading, Done("plan") PROVE ValidPlansMaterialize
    BY DEF ValidPlansMaterialize
  <2>1. /\ input \in Plans
        /\ output = [errors |-> Errors(input.plan), store |-> Materialized(input.plan)]
    BY KindsAreDisjoint, Zenon
  <2>2. input.plan \in ExecutionPlan
    BY <2>1 DEF Plans
  <2>3. output.errors = Errors(input.plan) /\ output.store = Materialized(input.plan)
    BY <2>1
  <2>4. output.errors = {} <=> Whole(input.plan)
    BY <2>2, <2>3, NoErrors, SoundIsWhole
  <2> QED BY <2>3, <2>4, Zenon DEF ValidPlansMaterialize, Whole
<1> QED BY <1>1, ReadingHolds, PTL

-----------------------------------------------------------------------------
(* Searches in a text.                                                     *)

LEMMA FirstIs ==
  ASSUME NEW text, Len(text) \in Nat, NEW from \in Nat, NEW T, NEW p \in from..Len(text),
         text[p] \in T, \A i \in from..p - 1 : text[i] \notin T
  PROVE  FirstAt(text, from, T) = p
<1> DEFINE at == {i \in from..Len(text) : text[i] \in T}
<1>1. p \in at /\ at \in SUBSET Int /\ at # {}
  OBVIOUS
<1>2. \A y \in at : p <= y
  OBVIOUS
<1>3. Min(at) = p
  <2> HIDE DEF at
  <2> QED BY <1>1, <1>2, LeastIs
<1> QED BY <1>1, <1>3 DEF FirstAt

LEMMA FirstNowhere ==
  ASSUME NEW text, NEW from, NEW T, \A i \in from..Len(text) : text[i] \notin T
  PROVE  FirstAt(text, from, T) = Nowhere
<1>1. {i \in from..Len(text) : text[i] \in T} = {}
  OBVIOUS
<1> QED BY <1>1 DEF FirstAt

LEMMA FirstBounds ==
  ASSUME NEW text, Len(text) \in Nat, NEW from \in Nat, NEW T
  PROVE  FirstAt(text, from, T) \in {Nowhere} \cup (from..Len(text))
<1> DEFINE at == {i \in from..Len(text) : text[i] \in T}
<1>1. at \in SUBSET Nat /\ at \subseteq from..Len(text)
  OBVIOUS
<1>2. at # {} => Min(at) \in at
  <2> HIDE DEF at
  <2> QED BY <1>1, LeastExists
<1>3. FirstAt(text, from, T) = IF at = {} THEN Nowhere ELSE Min(at)
  BY DEF FirstAt
<1> HIDE DEF at
<1> QED BY <1>1, <1>2, <1>3

LEMMA LastIs ==
  ASSUME NEW text, Len(text) \in Nat, NEW T, NEW p \in 1..Len(text),
         text[p] \in T, \A i \in p + 1..Len(text) : text[i] \notin T
  PROVE  LastAt(text, T) = p
<1> DEFINE at == {i \in 1..Len(text) : text[i] \in T}
<1>1. p \in at /\ at \in SUBSET Int /\ at # {}
  OBVIOUS
<1>2. \A y \in at : y <= p
  OBVIOUS
<1>3. Max(at) = p
  <2> HIDE DEF at
  <2> QED BY <1>1, <1>2, GreatestIs
<1> QED BY <1>1, <1>3 DEF LastAt

LEMMA LastBounds ==
  ASSUME NEW text, Len(text) \in Nat, NEW T
  PROVE  LastAt(text, T) \in {Nowhere} \cup (1..Len(text))
<1> DEFINE at == {i \in 1..Len(text) : text[i] \in T}
<1>1. at \in SUBSET (0..Len(text)) /\ at \subseteq 1..Len(text)
  OBVIOUS
<1>2. at # {} => Max(at) \in at
  <2> HIDE DEF at
  <2> QED BY <1>1, GreatestExists
<1>3. LastAt(text, T) = IF at = {} THEN Nowhere ELSE Max(at)
  BY DEF LastAt
<1> HIDE DEF at
<1> QED BY <1>1, <1>2, <1>3

LEMMA Nowhere0 == Nowhere = 0
BY DEF Nowhere

-----------------------------------------------------------------------------
(* What is found in a text is a part of it.                                *)

Part(text, block) == \E m, n \in Nat : 1 <= m /\ n <= Len(text) /\ block = SubSeq(text, m, n)

LEMMA FencedIsPart ==
  ASSUME NEW text \in Seq(Tokens), NEW T, Fenced(text, T) # NoText
  PROVE  Part(text, Fenced(text, T))
<1> DEFINE from == FirstAt(text, 1, T)
           to == FirstAt(text, from + 1, Marks)
<1>0. Len(text) \in Nat
  BY LenProperties
<1>1. from \in {Nowhere} \cup (1..Len(text))
  BY <1>0, FirstBounds
<1>2. ~(from = Nowhere \/ to = Nowhere) /\ Fenced(text, T) = SubSeq(text, from + 1, to - 1)
  BY DEF Fenced
<1>3. from + 1 \in Nat /\ from + 1 >= 2
  BY <1>0, <1>1, <1>2
<1>4. to \in {Nowhere} \cup (from + 1..Len(text))
  <2> HIDE DEF from
  <2> QED BY <1>0, <1>3, FirstBounds
<1> HIDE DEF from, to
<1>5. from + 1 \in Nat /\ to - 1 \in Nat /\ 1 <= from + 1 /\ to - 1 <= Len(text)
  BY <1>0, <1>2, <1>3, <1>4
<1> QED BY <1>2, <1>5 DEF Part

LEMMA BracedIsPart ==
  ASSUME NEW text \in Seq(Tokens)
  PROVE  Braced(text) \in {NoText, Panic} \/ Part(text, Braced(text))
<1> DEFINE from == FirstAt(text, 1, {"open"})
           to == LastAt(text, {"close"})
<1>0. Len(text) \in Nat
  BY LenProperties
<1>1. from \in {Nowhere} \cup (1..Len(text)) /\ to \in {Nowhere} \cup (1..Len(text))
  BY <1>0, FirstBounds, LastBounds
<1>2. Braced(text) = CASE Nowhere \in {from, to}           -> NoText
                       [] Nowhere < to /\ to < from        -> Panic
                       [] Nowhere < from /\ from <= to     -> SubSeq(text, from, to)
  BY DEF Braced
<1> HIDE DEF from, to
<1>3. \/ Nowhere \in {from, to}
      \/ Nowhere < to /\ to < from /\ Nowhere \notin {from, to}
      \/ Nowhere < from /\ from <= to /\ Nowhere \notin {from, to} /\ ~(to < from)
  BY <1>0, <1>1, Nowhere0
<1>4. \/ Braced(text) = NoText
      \/ Braced(text) = Panic
      \/ Nowhere < from /\ from <= to /\ Braced(text) = SubSeq(text, from, to)
  <2>1. CASE Nowhere \in {from, to}
    <3>1. ~(Nowhere < to /\ to < from) \/ TRUE
      OBVIOUS
    <3>2. ~(Nowhere < to /\ to < from /\ FALSE)
      OBVIOUS
    <3> QED BY <1>0, <1>1, <1>2, <2>1, Nowhere0
  <2>2. CASE Nowhere < to /\ to < from /\ Nowhere \notin {from, to}
    BY <1>2, <2>2
  <2>3. CASE Nowhere < from /\ from <= to /\ Nowhere \notin {from, to} /\ ~(to < from)
    BY <1>2, <2>3
  <2> QED BY <1>3, <2>1, <2>2, <2>3
<1>5. Nowhere < from /\ from <= to => from \in Nat /\ to \in Nat /\ 1 <= from /\ to <= Len(text)
  BY <1>0, <1>1, Nowhere0
<1> QED BY <1>4, <1>5 DEF Part

LEMMA PartOfThree ==
  ASSUME NEW text \in Seq(Tokens), NEW x, NEW y, NEW z, Part(text, <<x, y, z>>)
  PROVE  \E i \in 1..Len(text) - 2 : SubSeq(text, i, i + 2) = <<x, y, z>>
<1>1. PICK m, n \in Nat : 1 <= m /\ n <= Len(text) /\ <<x, y, z>> = SubSeq(text, m, n)
  BY DEF Part
<1>0. Len(text) \in Nat /\ \A i \in 1..Len(text) : text[i] \in Tokens
  BY LenProperties
<1>2. \A i \in m..n : text[i] \in Tokens
  BY <1>0, <1>1
<1>3. Len(SubSeq(text, m, n)) = IF m <= n THEN n - m + 1 ELSE 0
  BY <1>2, SubSeqProperties
<1>4. Len(<<x, y, z>>) = 3
  OBVIOUS
<1>5. n = m + 2 /\ m \in 1..Len(text) - 2
  BY <1>0, <1>1, <1>3, <1>4
<1> QED BY <1>1, <1>5

-----------------------------------------------------------------------------
(* The verdict.                                                            *)

Gravest(text) ==
  IF "rejected" \in Range(text) THEN "rejected"
  ELSE IF "revise" \in Range(text) THEN "revise" ELSE "approved"

LEMMA ScanIsGravest ==
  ASSUME NEW text
  PROVE  KeywordScan(text) = Gravest(text)
BY DEF KeywordScan, Gravest

LEMMA MeaningOf ==
  \A w \in Words : /\ Meaning[w] \in {"approved", "revise", "rejected", "none"}
                   /\ Meaning[w] = "approved" => w = "lgtm"
BY DEF Meaning, Words

\* Objects are told apart by their length and their tokens.
LEMMA Triples ==
  /\ \A w : <<"open", w, "close">> \notin {NoText, Panic, <<"open", "close">>}
  /\ \A v, w : <<"open", v, "close">> = <<"open", w, "close">> => v = w
  /\ \A w : <<"open", w, "close">>[2] = w
  /\ <<"open", "close">> \notin {NoText, Panic}
  /\ NoText # Panic
<1>1. ASSUME NEW w PROVE <<"open", w, "close">>[1] = "open" /\ <<"open", w, "close">>[2] = w
  OBVIOUS
<1>2. NoText[1] = "nothing" /\ Panic[1] = "panic" /\ <<"open", "close">>[1] = "open"
  BY DEF NoText, Panic
<1>3. ASSUME NEW w PROVE Len(<<"open", w, "close">>) = 3 /\ Len(<<"open", "close">>) = 2
  OBVIOUS
<1>4. \A w : <<"open", w, "close">> # <<"open", "close">>
  BY <1>3
<1>5. "nothing" # "open" /\ "panic" # "open" /\ "nothing" # "panic"
  OBVIOUS
<1>6. \A w : <<"open", w, "close">> # NoText /\ <<"open", w, "close">> # Panic
  BY <1>1, <1>2, <1>5
<1>7. \A v, w : <<"open", v, "close">> = <<"open", w, "close">> => v = w
  BY <1>1
<1>8. <<"open", "close">> # NoText /\ <<"open", "close">> # Panic /\ NoText # Panic
  BY <1>2, <1>5
<1>9. \A w : <<"open", w, "close">>[2] = w
  BY <1>1
<1> QED BY <1>4, <1>6, <1>7, <1>8, <1>9

LEMMA DecisionOfObject ==
  ASSUME NEW text, NEW w \in Words, ExtractJsonBlock(text) = <<"open", w, "close">>
  PROVE  ParseReviewDecision(text) = IF Meaning[w] # "none" THEN Meaning[w] ELSE Gravest(text)
<1> DEFINE block == ExtractJsonBlock(text)
<1>0. block = <<"open", w, "close">>
  OBVIOUS
<1>1. block # Panic
  BY <1>0, Triples, Zenon
<1>2. block[2] = w
  BY <1>0, Triples, Zenon
<1>3. \A v \in Words : block = <<"open", v, "close">> => v = w
  BY <1>0, Triples, Zenon
<1>4. (\E v \in Words : block = <<"open", v, "close">> /\ Meaning[v] # "none") <=> Meaning[w] # "none"
  BY <1>3
<1>5. ParseReviewDecision(text) =
        CASE block = Panic -> "panic"
          [] \E v \in Words : block = <<"open", v, "close">> /\ Meaning[v] # "none" -> Meaning[block[2]]
          [] OTHER -> KeywordScan(text)
  BY DEF ParseReviewDecision
<1> HIDE DEF block
<1> QED BY <1>1, <1>2, <1>4, <1>5, ScanIsGravest

LEMMA DecisionWithoutObject ==
  ASSUME NEW text, ExtractJsonBlock(text) # Panic,
         \A w \in Words : ExtractJsonBlock(text) # <<"open", w, "close">>
  PROVE  ParseReviewDecision(text) = Gravest(text)
<1>1. ParseReviewDecision(text) = KeywordScan(text)
  BY DEF ParseReviewDecision
<1> QED BY <1>1, ScanIsGravest

\* An approval is either said by an object of the text or contradicted by nothing.
LEMMA ApprovalIsSaid ==
  ASSUME NEW text \in Seq(Tokens), ParseReviewDecision(text) = "approved"
  PROVE  \/ Gravest(text) = "approved"
         \/ \E i \in 1..Len(text) - 2 : SubSeq(text, i, i + 2) = <<"open", "lgtm", "close">>
<1> DEFINE block == ExtractJsonBlock(text)
<1>1. block \in {NoText, Panic} \/ Part(text, block)
  BY FencedIsPart, BracedIsPart DEF ExtractJsonBlock
<1>2. CASE block = Panic
  <2>1. ~\E w \in Words : block = <<"open", w, "close">> /\ Meaning[w] # "none"
    BY <1>2, Triples, Zenon
  <2>2. ParseReviewDecision(text) = "panic"
    BY <1>2, <2>1 DEF ParseReviewDecision
  <2> QED BY <2>2
<1>3. CASE \E w \in Words : block = <<"open", w, "close">>
  <2>1. PICK w \in Words : block = <<"open", w, "close">>
    BY <1>3
  <2>2. ParseReviewDecision(text) = IF Meaning[w] # "none" THEN Meaning[w] ELSE Gravest(text)
    BY <2>1, DecisionOfObject
  <2>3. CASE Meaning[w] = "none"
    BY <2>2, <2>3
  <2>4. CASE Meaning[w] # "none"
    <3>1. w = "lgtm"
      BY <2>2, <2>4, MeaningOf
    <3>2. block \notin {NoText, Panic}
      BY <2>1, Triples, Zenon
    <3>3. Part(text, <<"open", "lgtm", "close">>)
      BY <1>1, <2>1, <3>1, <3>2
    <3> QED BY <3>3, PartOfThree
  <2> QED BY <2>3, <2>4
<1>4. CASE block # Panic /\ ~\E w \in Words : block = <<"open", w, "close">>
  BY <1>4, DecisionWithoutObject
<1> QED BY <1>2, <1>3, <1>4
-----------------------------------------------------------------------------
(* An object among words.                                                  *)

\* Block k stands in the text after its first p tokens.
Stands(text, p, k) ==
  /\ p \in Nat
  /\ p + Len(k) <= Len(text)
  /\ \A i \in 1..Len(k) : text[p + i] = k[i]

LEMMA Tuples ==
  ASSUME NEW S, NEW x \in S, NEW y \in S, NEW z \in S
  PROVE  /\ <<x, y>> \in Seq(S) /\ Len(<<x, y>>) = 2 /\ <<x, y>>[1] = x /\ <<x, y>>[2] = y
         /\ <<x, y, z>> \in Seq(S) /\ Len(<<x, y, z>>) = 3
         /\ <<x, y, z>>[1] = x /\ <<x, y, z>>[2] = y /\ <<x, y, z>>[3] = z
OBVIOUS

LEMMA CutOut ==
  ASSUME NEW text \in Seq(Tokens), NEW k \in Seq(Tokens), NEW p, Stands(text, p, k), k # <<>>
  PROVE  SubSeq(text, p + 1, p + Len(k)) = k
<1> DEFINE q == SubSeq(text, p + 1, p + Len(k))
<1>1. /\ Len(text) \in Nat /\ \A i \in 1..Len(text) : text[i] \in Tokens
      /\ Len(k) \in Nat /\ Len(k) # 0 /\ p \in Nat /\ p + Len(k) <= Len(text)
  BY LenProperties, EmptySeq DEF Stands
<1> DEFINE m == p + 1
           n == p + Len(k)
<1>3. /\ m \in Int /\ n \in Int /\ n - m + 1 = Len(k) /\ m <= n
      /\ \A i \in 1..Len(k) : m + i - 1 = p + i
  BY <1>1
<1> HIDE DEF m, n
<1>4. /\ q \in Seq(Tokens)
      /\ Len(q) = IF m <= n THEN n - m + 1 ELSE 0
      /\ \A i \in 1..n - m + 1 : q[i] = text[m + i - 1]
  <2>1. \A i \in m..n : text[i] \in Tokens
    BY <1>1 DEF m, n
  <2>2. q = SubSeq(text, m, n)
    BY DEF m, n
  <2> HIDE DEF q
  <2> QED BY <1>3, <2>1, <2>2, SubSeqProperties
<1> HIDE DEF q
<1>5. Len(q) = Len(k)
  BY <1>3, <1>4
<1>6. ASSUME NEW i \in 1..Len(k) PROVE q[i] = k[i]
  <2> QED BY <1>3, <1>4 DEF Stands
<1> QED BY <1>4, <1>5, <1>6, SeqEqual DEF q

LEMMA TokensDiffer ==
  /\ "mark" \notin JsonMark
  /\ "open" \notin Words /\ "close" \notin Words /\ "open" # "close"
  /\ "open" \notin Marks /\ "close" \notin Marks
  /\ Words \cap Marks = {} /\ JsonMark \subseteq Marks
  /\ Words \subseteq Tokens /\ Marks \subseteq Tokens
  /\ "perhaps" \in Words /\ "mark" \in Marks
BY DEF Words, Marks, JsonMark, Tokens

InBraces(o) ==
  /\ o \in Seq(Tokens) /\ o # <<>>
  /\ Len(o) \in {2, 3}
  /\ o[1] = "open" /\ o[Len(o)] = "close"
  /\ \A i \in 2..Len(o) - 1 : o[i] \in Words
  /\ \A i \in 1..Len(o) : o[i] \notin Marks

LEMMA ObjectType == \A o \in Objects : InBraces(o)
<1> SUFFICES ASSUME NEW o \in Objects PROVE InBraces(o)
  OBVIOUS
<1>1. CASE o = <<"open", "close">>
  <2>1. "open" \in Tokens /\ "close" \in Tokens
    BY DEF Tokens
  <2>2. Len(o) = 2 /\ o[1] = "open" /\ o[2] = "close" /\ o \in Seq(Tokens)
    BY <1>1, <2>1, Tuples
  <2>3. \A i \in 1..Len(o) : i = 1 \/ i = 2
    BY <2>2
  <2>4. o # <<>>
    BY <2>2, EmptySeq
  <2>5. ~\E i \in 2..Len(o) - 1 : TRUE
    BY <2>2
  <2> QED BY <2>2, <2>3, <2>4, <2>5, TokensDiffer DEF InBraces
<1>2. ASSUME NEW w \in Words, o = <<"open", w, "close">> PROVE InBraces(o)
  <2>1. "open" \in Tokens /\ "close" \in Tokens /\ w \in Tokens
    BY TokensDiffer DEF Tokens
  <2>2. Len(o) = 3 /\ o[1] = "open" /\ o[2] = w /\ o[3] = "close" /\ o \in Seq(Tokens)
    BY <1>2, <2>1, Tuples
  <2>3. \A i \in 1..Len(o) : i = 1 \/ i = 2 \/ i = 3
    BY <2>2
  <2>4. \A i \in 2..Len(o) - 1 : i = 2
    BY <2>2
  <2>5. w \notin Marks
    BY TokensDiffer
  <2>6. o # <<>>
    BY <2>2, EmptySeq
  <2>7. o[1] \notin Marks /\ o[2] \notin Marks /\ o[3] \notin Marks
    BY <2>2, <2>5, TokensDiffer
  <2>8. \A i \in 1..Len(o) : o[i] \notin Marks
    BY <2>3, <2>7
  <2>9. \A i \in 2..Len(o) - 1 : o[i] \in Words
    BY <2>2, <2>4
  <2>10. o[Len(o)] = "close" /\ Len(o) \in {2, 3}
    BY <2>2
  <2> QED BY <2>2, <2>6, <2>8, <2>9, <2>10, Zenon DEF InBraces
<1> QED BY <1>1, <1>2 DEF Objects

LEMMA BracedIs ==
  ASSUME NEW text \in Seq(Tokens), NEW o \in Objects, NEW p, Stands(text, p, o),
         \A i \in 1..Len(text) : i <= p \/ i > p + Len(o) => text[i] \notin {"open", "close"}
  PROVE  Braced(text) = o
<1> DEFINE from == p + 1
           to == p + Len(o)
<1>1. /\ o \in Seq(Tokens) /\ o # <<>> /\ Len(o) \in {2, 3} /\ o[1] = "open" /\ o[Len(o)] = "close"
      /\ Len(text) \in Nat /\ p \in Nat /\ to <= Len(text)
      /\ \A i \in 1..Len(o) : text[p + i] = o[i]
  BY ObjectType, LenProperties DEF Stands, InBraces
<1>0. Len(o) \in Nat /\ 1 \in 1..Len(o) /\ Len(o) \in 1..Len(o)
  BY <1>1
<1>2. text[from] \in {"open"} /\ text[to] \in {"close"}
  BY <1>0, <1>1
<1>3. from \in 1..Len(text) /\ to \in 1..Len(text) /\ from <= to
  BY <1>0, <1>1
<1>4. \A i \in 1..from - 1 : i \in 1..Len(text) /\ i <= p
  BY <1>0, <1>1
<1>5. \A i \in to + 1..Len(text) : i \in 1..Len(text) /\ i > p + Len(o)
  BY <1>0, <1>1
<1>6. SubSeq(text, from, to) = o
  BY <1>1, CutOut
<1>10. \A i \in 1..from - 1 : text[i] \notin {"open"}
  BY <1>4
<1>11. \A i \in to + 1..Len(text) : text[i] \notin {"close"}
  BY <1>5
<1> HIDE DEF from, to
<1>7. FirstAt(text, 1, {"open"}) = from
  <2>1. 1 \in Nat
    OBVIOUS
  <2> QED BY <1>1, <1>2, <1>3, <1>10, <2>1, FirstIs, Zenon
<1>8. LastAt(text, {"close"}) = to
  BY <1>1, <1>2, <1>3, <1>11, LastIs, Zenon
<1>9. Nowhere \notin {from, to} /\ ~(to < from) /\ Nowhere < from
  BY <1>1, <1>3, Nowhere0
<1> QED BY <1>3, <1>6, <1>7, <1>8, <1>9 DEF Braced

LEMMA FencedIs ==
  ASSUME NEW text \in Seq(Tokens), NEW T \in SUBSET Marks, NEW o \in Objects, NEW p,
         Stands(text, p + 1, o), p \in Nat, p + 2 + Len(o) <= Len(text),
         text[p + 1] \in T, text[p + 2 + Len(o)] \in Marks,
         \A i \in 1..p : text[i] \notin Marks
  PROVE  Fenced(text, T) = o
<1> DEFINE from == p + 1
           to == p + 2 + Len(o)
<1>1. /\ o \in Seq(Tokens) /\ o # <<>> /\ Len(o) \in {2, 3} /\ Len(text) \in Nat /\ p \in Nat
      /\ \A i \in 1..Len(o) : text[p + 1 + i] = o[i] /\ o[i] \notin Marks
  BY ObjectType, LenProperties DEF Stands, InBraces
<1>2. from \in 1..Len(text) /\ from + 1 \in Nat /\ to \in from + 1..Len(text)
  BY <1>1
<1>3. \A i \in 1..from - 1 : text[i] \notin T
  <2>1. from - 1 = p
    BY <1>1
  <2> QED BY <2>1
<1>4. FirstAt(text, 1, T) = from
  <2> HIDE DEF from
  <2> QED BY <1>1, <1>2, <1>3, FirstIs DEF from
<1>5. ASSUME NEW i \in from + 1..to - 1 PROVE text[i] \notin Marks
  <2>1. i - (p + 1) \in 1..Len(o) /\ p + 1 + (i - (p + 1)) = i
    BY <1>1
  <2> QED BY <1>1, <2>1
<1>6. FirstAt(text, from + 1, Marks) = to
  <2>1. text[to] \in Marks
    OBVIOUS
  <2> HIDE DEF from, to
  <2> QED BY <1>1, <1>2, <1>5, <2>1, FirstIs
<1>7. SubSeq(text, from + 1, to - 1) = o
  <2>1. SubSeq(text, p + 1 + 1, p + 1 + Len(o)) = o
    BY <1>1, CutOut
  <2>2. from + 1 = p + 1 + 1 /\ to - 1 = p + 1 + Len(o)
    BY <1>1
  <2> QED BY <2>1, <2>2
<1>8. from # Nowhere /\ to # Nowhere
  BY <1>1, Nowhere0
<1> HIDE DEF from, to
<1> QED BY <1>4, <1>6, <1>7, <1>8 DEF Fenced

LEMMA NotFenced ==
  ASSUME NEW text, NEW T, \A i \in 1..Len(text) : text[i] \notin T
  PROVE  Fenced(text, T) = NoText
BY FirstNowhere DEF Fenced

LEMMA NotBraced ==
  ASSUME NEW text, Len(text) \in Nat, \A i \in 1..Len(text) : text[i] \notin {"open"}
  PROVE  Braced(text) = NoText
<1>1. FirstAt(text, 1, {"open"}) = Nowhere
  BY FirstNowhere
<1>2. LastAt(text, {"close"}) \in {Nowhere} \cup 1..Len(text)
  BY LastBounds
<1>3. ~(LastAt(text, {"close"}) < Nowhere) /\ ~(Nowhere < Nowhere)
  BY <1>2, Nowhere0
<1> QED BY <1>1, <1>3 DEF Braced

-----------------------------------------------------------------------------
(* A block between two texts.                                              *)

\* The tokens of such a text are those of its parts.
LEMMA Places ==
  ASSUME NEW b \in Seq(Tokens), NEW k \in Seq(Tokens), NEW a \in Seq(Tokens)
  PROVE  LET text == b \o k \o a IN
         /\ text \in Seq(Tokens) /\ Len(text) = Len(b) + Len(k) + Len(a)
         /\ Stands(text, Len(b), k)
         /\ \A i \in 1..Len(text) : i <= Len(b) => text[i] \in Range(b)
         /\ \A i \in 1..Len(text) : i > Len(b) + Len(k) => text[i] \in Range(a)
<1> DEFINE c == b \o k
           text == c \o a
<1>1. /\ Len(b) \in Nat /\ Len(k) \in Nat /\ Len(a) \in Nat
      /\ DOMAIN b = 1..Len(b) /\ DOMAIN a = 1..Len(a)
  BY LenProperties
<1>2. /\ c \in Seq(Tokens) /\ Len(c) = Len(b) + Len(k)
      /\ \A i \in 1..Len(b) + Len(k) : c[i] = IF i <= Len(b) THEN b[i] ELSE k[i - Len(b)]
  BY ConcatProperties
<1> HIDE DEF c
<1>3. /\ text \in Seq(Tokens) /\ Len(text) = Len(c) + Len(a)
      /\ \A i \in 1..Len(c) + Len(a) : text[i] = IF i <= Len(c) THEN c[i] ELSE a[i - Len(c)]
  <2>1. c \in Seq(Tokens)
    BY <1>2
  <2> QED BY <2>1, ConcatProperties
<1> HIDE DEF text
<1>4. ASSUME NEW i \in 1..Len(k) PROVE text[Len(b) + i] = k[i]
  <2>1. /\ Len(b) + i \in 1..Len(b) + Len(k) /\ Len(b) + i \in 1..Len(c) + Len(a)
        /\ Len(b) + i <= Len(c) /\ ~(Len(b) + i <= Len(b)) /\ Len(b) + i - Len(b) = i
    BY <1>1, <1>2
  <2> QED BY <1>2, <1>3, <2>1
<1>5. Stands(text, Len(b), k)
  BY <1>1, <1>2, <1>3, <1>4 DEF Stands
<1>6. ASSUME NEW i \in 1..Len(text), i <= Len(b) PROVE text[i] \in Range(b)
  <2>1. i \in DOMAIN b /\ i \in 1..Len(b) + Len(k) /\ i \in 1..Len(c) + Len(a) /\ i <= Len(c)
    BY <1>1, <1>2, <1>3, <1>6
  <2>2. text[i] = b[i]
    BY <1>2, <1>3, <1>6, <2>1
  <2> QED BY <2>1, <2>2 DEF Range
<1>7. ASSUME NEW i \in 1..Len(text), i > Len(b) + Len(k) PROVE text[i] \in Range(a)
  <2>1. i \in 1..Len(c) + Len(a) /\ ~(i <= Len(c)) /\ i - Len(c) \in DOMAIN a
    BY <1>1, <1>2, <1>3, <1>7
  <2>2. text[i] = a[i - Len(c)]
    BY <1>3, <2>1
  <2> QED BY <2>1, <2>2 DEF Range
<1>8. Len(text) = Len(b) + Len(k) + Len(a)
  BY <1>2, <1>3
<1> QED BY <1>3, <1>5, <1>6, <1>7, <1>8 DEF text, c

LEMMA PlainParts ==
  ASSUME NEW b \in Seq(Tokens), NEW a \in Seq(Tokens), Plain(b \o a)
  PROVE  Range(b) \subseteq Words /\ Range(a) \subseteq Words
<1>1. /\ Len(b) \in Nat /\ Len(a) \in Nat /\ DOMAIN b = 1..Len(b) /\ DOMAIN a = 1..Len(a)
  BY LenProperties
<1>2. /\ b \o a \in Seq(Tokens) /\ Len(b \o a) = Len(b) + Len(a)
      /\ \A i \in 1..Len(b) + Len(a) : (b \o a)[i] = IF i <= Len(b) THEN b[i] ELSE a[i - Len(b)]
  BY ConcatProperties
<1>3. DOMAIN (b \o a) = 1..Len(b) + Len(a)
  BY <1>2, LenProperties
<1>4. \A i \in 1..Len(b) + Len(a) : (b \o a)[i] \in Words
  BY <1>3 DEF Plain, Range
<1>5. ASSUME NEW i \in DOMAIN b PROVE b[i] \in Words
  <2>1. i \in 1..Len(b) + Len(a) /\ i <= Len(b)
    BY <1>1
  <2> QED BY <1>2, <1>4, <2>1
<1>6. ASSUME NEW i \in DOMAIN a PROVE a[i] \in Words
  <2>1. Len(b) + i \in 1..Len(b) + Len(a) /\ ~(Len(b) + i <= Len(b)) /\ Len(b) + i - Len(b) = i
    BY <1>1
  <2> QED BY <1>2, <1>4, <2>1
<1> QED BY <1>5, <1>6 DEF Range

\* Block k is object o between two marks, the first of either sort.
Quoted(k, o) ==
  /\ k \in Seq(Tokens)
  /\ Len(k) = Len(o) + 2
  /\ k[1] \in Marks
  /\ \A i \in 1..Len(o) : k[i + 1] = o[i]
  /\ k[Len(o) + 2] = "mark"

LEMMA BlockType ==
  ASSUME NEW o \in Objects, NEW k \in Blocks(o)
  PROVE  k = o \/ Quoted(k, o)
<1> SUFFICES ASSUME k # o PROVE Quoted(k, o)
  OBVIOUS
<1>1. o \in Seq(Tokens) /\ o # <<>> /\ Len(o) \in Nat
  BY ObjectType, LenProperties DEF InBraces
<1>2. PICK mark \in Marks : k = <<mark>> \o o \o <<"mark">>
  BY <1>1 DEF Blocks
<1>3. mark \in Tokens /\ "mark" \in Tokens /\ "mark" \in Marks
  BY TokensDiffer
<1>4. /\ <<mark>> \in Seq(Tokens) /\ Len(<<mark>>) = 1 /\ <<mark>>[1] = mark
      /\ <<"mark">> \in Seq(Tokens) /\ Len(<<"mark">>) = 1 /\ <<"mark">>[1] = "mark"
  BY <1>3
<1> DEFINE c == <<mark>> \o o
<1>5. /\ c \in Seq(Tokens) /\ Len(c) = 1 + Len(o)
      /\ \A i \in 1..1 + Len(o) : c[i] = IF i <= 1 THEN <<mark>>[i] ELSE o[i - 1]
  BY <1>1, <1>4, ConcatProperties
<1> HIDE DEF c
<1>6. /\ k \in Seq(Tokens) /\ Len(k) = Len(c) + 1
      /\ \A i \in 1..Len(c) + 1 : k[i] = IF i <= Len(c) THEN c[i] ELSE <<"mark">>[i - Len(c)]
  BY <1>2, <1>4, <1>5, ConcatProperties DEF c
<1>7. k[1] \in Marks
  <2>1. 1 \in 1..Len(c) + 1 /\ 1 <= Len(c) /\ 1 \in 1..1 + Len(o) /\ 1 <= 1
    BY <1>1, <1>5
  <2> QED BY <1>4, <1>5, <1>6, <2>1
<1>8. k[Len(o) + 2] = "mark"
  <2>1. Len(o) + 2 \in 1..Len(c) + 1 /\ ~(Len(o) + 2 <= Len(c)) /\ Len(o) + 2 - Len(c) = 1
    BY <1>1, <1>5
  <2> QED BY <1>3, <1>4, <1>6, <2>1
<1>9. ASSUME NEW i \in 1..Len(o) PROVE k[i + 1] = o[i]
  <2>1. /\ i + 1 \in 1..Len(c) + 1 /\ i + 1 <= Len(c) /\ i + 1 \in 1..1 + Len(o)
        /\ ~(i + 1 <= 1) /\ i + 1 - 1 = i
    BY <1>1, <1>5
  <2> QED BY <1>5, <1>6, <2>1
<1>10. Len(k) = Len(o) + 2
  BY <1>1, <1>5, <1>6
<1> QED BY <1>6, <1>7, <1>8, <1>9, <1>10 DEF Quoted

\* The only object of a text is found, bare or quoted.
LEMMA BareIsFound ==
  ASSUME NEW text \in Seq(Tokens), NEW o \in Objects, NEW p, Stands(text, p, o),
         \A i \in 1..Len(text) : i <= p \/ i > p + Len(o) => text[i] \in Words
  PROVE  ExtractJsonBlock(text) = o /\ ExtractJson(text) = o
<1>1. /\ o \in Seq(Tokens) /\ o # <<>> /\ Len(o) \in Nat /\ Len(text) \in Nat /\ p \in Nat
      /\ \A i \in 1..Len(o) : text[p + i] = o[i] /\ o[i] \notin Marks
  BY ObjectType, LenProperties DEF Stands, InBraces
<1>2. Braced(text) = o
  <2>1. \A i \in 1..Len(text) : i <= p \/ i > p + Len(o) => text[i] \notin {"open", "close"}
    BY TokensDiffer
  <2> QED BY <2>1, BracedIs
<1>3. ASSUME NEW i \in 1..Len(text) PROVE text[i] \notin Marks
  <2>1. CASE i <= p \/ i > p + Len(o)
    BY <2>1, TokensDiffer
  <2>2. CASE ~(i <= p \/ i > p + Len(o))
    <3>1. i - p \in 1..Len(o) /\ p + (i - p) = i
      BY <1>1, <2>2
    <3> QED BY <1>1, <3>1
  <2> QED BY <2>1, <2>2
<1>4. Fenced(text, Marks) = NoText
  BY <1>3, NotFenced
<1>5. Fenced(text, JsonMark) = NoText
  <2>1. \A i \in 1..Len(text) : text[i] \notin JsonMark
    BY <1>3, TokensDiffer
  <2> QED BY <2>1, NotFenced
<1>6. o # NoText
  BY Triples, Zenon DEF Objects
<1>7. ExtractJsonBlock(text) = o
  BY <1>2, <1>5 DEF ExtractJsonBlock
<1>8. ExtractJson(text) = o
  BY <1>2, <1>4, <1>5, <1>6 DEF ExtractJson
<1> QED BY <1>7, <1>8

LEMMA QuotedIsFound ==
  ASSUME NEW text \in Seq(Tokens), NEW o \in Objects, NEW k, Quoted(k, o), NEW p, Stands(text, p, k),
         \A i \in 1..Len(text) : i <= p \/ i > p + Len(k) => text[i] \in Words
  PROVE  ExtractJsonBlock(text) = o /\ ExtractJson(text) = o
<1>1. /\ o \in Seq(Tokens) /\ o # <<>> /\ Len(o) \in Nat /\ Len(text) \in Nat /\ p \in Nat
      /\ \A i \in 1..Len(o) : o[i] \notin Marks
      /\ Len(k) = Len(o) + 2 /\ p + Len(k) <= Len(text)
      /\ \A i \in 1..Len(k) : text[p + i] = k[i]
  BY ObjectType, LenProperties DEF Stands, InBraces, Quoted
<1>2. /\ text[p + 1] = k[1] /\ k[1] \in Marks
      /\ text[p + 2 + Len(o)] = "mark"
      /\ \A i \in 1..Len(o) : text[p + 1 + i] = o[i]
  <2>1. 1 \in 1..Len(k) /\ Len(o) + 2 \in 1..Len(k) /\ p + 2 + Len(o) = p + (Len(o) + 2)
    BY <1>1
  <2>2. \A i \in 1..Len(o) : i + 1 \in 1..Len(k) /\ p + 1 + i = p + (i + 1)
    BY <1>1
  <2>3. \A i \in 1..Len(o) : text[p + 1 + i] = o[i]
    BY <1>1, <2>2 DEF Quoted
  <2>4. text[p + 2 + Len(o)] = "mark"
    BY <1>1, <2>1 DEF Quoted
  <2> QED BY <1>1, <2>1, <2>3, <2>4 DEF Quoted
<1>3. Stands(text, p + 1, o)
  BY <1>1, <1>2 DEF Stands
\* The places of the text.
<1>4. ASSUME NEW i \in 1..Len(text)
      PROVE  \/ text[i] \in Words
             \/ i = p + 1
             \/ i = p + 2 + Len(o)
             \/ i - (p + 1) \in 1..Len(o) /\ text[i] = o[i - (p + 1)]
  <2>1. CASE i <= p \/ i > p + Len(k)
    BY <2>1
  <2>2. CASE i = p + 1 \/ i = p + 2 + Len(o)
    BY <2>2
  <2>3. CASE ~(i <= p \/ i > p + Len(k)) /\ ~(i = p + 1 \/ i = p + 2 + Len(o))
    <3>1. i \in Nat /\ Len(o) \in Nat /\ p \in Nat /\ ~(i <= p) /\ ~(i > p + (Len(o) + 2))
      BY <1>1, <2>3
    <3>2. i # p + 1 /\ i # p + 2 + Len(o)
      BY <2>3
    <3>3. i - (p + 1) \in 1..Len(o) /\ p + 1 + (i - (p + 1)) = i
      BY <3>1, <3>2
    <3> QED BY <1>2, <3>3
  <2> QED BY <2>1, <2>2, <2>3
<1>5. Braced(text) = o
  <2>1. ASSUME NEW i \in 1..Len(text), i <= p + 1 \/ i > p + 1 + Len(o)
        PROVE  text[i] \notin {"open", "close"}
    <3>1. ~(i - (p + 1) \in 1..Len(o))
      BY <1>1, <2>1
    <3>2. text[i] \in Words \/ text[i] \in Marks
      BY <1>2, <1>4, <3>1, TokensDiffer
    <3> QED BY <3>2, TokensDiffer
  <2> QED BY <1>3, <2>1, BracedIs
<1>6. \A i \in 1..p : text[i] \notin Marks
  <2>1. \A i \in 1..p : i \in 1..Len(text) /\ i <= p
    BY <1>1
  <2> QED BY <2>1, TokensDiffer
<1>7. p + 2 + Len(o) <= Len(text) /\ "mark" \in Marks
  BY <1>1, TokensDiffer
<1>8. Fenced(text, Marks) = o
  BY <1>1, <1>2, <1>3, <1>6, <1>7, FencedIs
<1>9. Fenced(text, JsonMark) \in {o, NoText}
  <2>1. CASE k[1] \in JsonMark
    <3>1. JsonMark \in SUBSET Marks /\ text[p + 1] \in JsonMark /\ text[p + 2 + Len(o)] \in Marks
      BY <1>2, <1>7, <2>1, TokensDiffer
    <3> QED BY <1>1, <1>3, <1>6, <1>7, <3>1, FencedIs
  <2>2. CASE k[1] \notin JsonMark
    <3>1. ASSUME NEW i \in 1..Len(text) PROVE text[i] \notin JsonMark
      <4>1. CASE text[i] \in Words
        BY <4>1, TokensDiffer
      <4>2. CASE i = p + 1
        BY <1>2, <2>2, <4>2
      <4>3. CASE i = p + 2 + Len(o)
        BY <1>2, <4>3, TokensDiffer
      <4>4. CASE i - (p + 1) \in 1..Len(o) /\ text[i] = o[i - (p + 1)]
        BY <1>1, <4>4, TokensDiffer
      <4> QED BY <1>4, <4>1, <4>2, <4>3, <4>4
    <3> QED BY <3>1, NotFenced
  <2> QED BY <2>1, <2>2
<1>10. o # NoText
  BY Triples, Zenon DEF Objects
<1>11. ExtractJsonBlock(text) = o
  BY <1>5, <1>9, <1>10 DEF ExtractJsonBlock
<1>12. ExtractJson(text) = o
  BY <1>8, <1>9, <1>10 DEF ExtractJson
<1> QED BY <1>11, <1>12

LEMMA ObjectIsFound ==
  ASSUME NEW b \in Seq(Tokens), NEW a \in Seq(Tokens), Plain(b \o a),
         NEW o \in Objects, NEW k \in Blocks(o)
  PROVE  LET text == b \o k \o a IN ExtractJsonBlock(text) = o /\ ExtractJson(text) = o
<1> DEFINE text == b \o k \o a
<1>1. Range(b) \subseteq Words /\ Range(a) \subseteq Words
  BY PlainParts
<1>2. k \in Seq(Tokens)
  BY BlockType, ObjectType DEF Quoted, InBraces
<1>3. /\ text \in Seq(Tokens) /\ Stands(text, Len(b), k)
      /\ \A i \in 1..Len(text) : i <= Len(b) \/ i > Len(b) + Len(k) => text[i] \in Words
  BY <1>1, <1>2, Places
<1> HIDE DEF text
<1>4. ASSUME k = o PROVE ExtractJsonBlock(text) = o /\ ExtractJson(text) = o
  BY <1>3, <1>4, BareIsFound
<1>5. ASSUME Quoted(k, o) PROVE ExtractJsonBlock(text) = o /\ ExtractJson(text) = o
  BY <1>3, <1>5, QuotedIsFound
<1> QED BY <1>4, <1>5, BlockType DEF text

LEMMA NothingIsFound ==
  ASSUME NEW b \in Seq(Tokens), NEW a \in Seq(Tokens), Plain(b \o a)
  PROVE  ExtractJsonBlock(b \o <<>> \o a) = NoText
<1> DEFINE text == b \o <<>> \o a
<1>1. Range(b) \subseteq Words /\ Range(a) \subseteq Words
  BY PlainParts
<1>2. <<>> \in Seq(Tokens) /\ Len(<<>>) = 0 /\ Len(b) \in Nat
  BY LenProperties
<1>3. /\ text \in Seq(Tokens)
      /\ \A i \in 1..Len(text) : i <= Len(b) \/ i > Len(b) + Len(<<>>) => text[i] \in Words
  BY <1>1, <1>2, Places
<1> HIDE DEF text
<1>4. \A i \in 1..Len(text) : text[i] \in Words
  BY <1>2, <1>3, LenProperties
<1>5. Fenced(text, JsonMark) = NoText
  <2>1. \A i \in 1..Len(text) : text[i] \notin JsonMark
    BY <1>4, TokensDiffer
  <2> QED BY <2>1, NotFenced
<1>6. Braced(text) = NoText
  <2>1. \A i \in 1..Len(text) : text[i] \notin {"open"}
    BY <1>4, TokensDiffer
  <2> QED BY <1>3, <2>1, LenProperties, NotBraced
<1>7. ExtractJsonBlock(text) = NoText
  BY <1>5, <1>6 DEF ExtractJsonBlock
<1> QED BY <1>7 DEF text

-----------------------------------------------------------------------------
(* The word of a block.                                                    *)

LEMMA WordIs ==
  ASSUME NEW k, NEW w, \A i \in DOMAIN k : k[i] \in Words => k[i] = w,
         \E i \in DOMAIN k : k[i] \in Words
  PROVE  Word(k) = w
<1> DEFINE at == {i \in DOMAIN k : k[i] \in Words}
<1>1. at # {} /\ (CHOOSE i \in at : TRUE) \in at
  OBVIOUS
<1>2. Word(k) = k[CHOOSE i \in at : TRUE]
  BY <1>1 DEF Word
<1> QED BY <1>1, <1>2

LEMMA NoWord ==
  ASSUME NEW k, \A i \in DOMAIN k : k[i] \notin Words
  PROVE  Word(k) = "perhaps"
BY DEF Word

LEMMA WordOfBlock ==
  ASSUME NEW o \in Objects, NEW k \in Blocks(o)
  PROVE  \/ /\ o = <<"open", "close">>
            /\ Word(k) = "perhaps"
         \/ /\ Word(k) \in Words
            /\ o = <<"open", Word(k), "close">>
<1>1. o \in Seq(Tokens) /\ k \in Seq(Tokens)
  BY BlockType, ObjectType DEF Quoted, InBraces
<1>2. /\ Len(o) \in Nat /\ DOMAIN o = 1..Len(o)
      /\ Len(k) \in Nat /\ DOMAIN k = 1..Len(k)
  BY <1>1, LenProperties
\* The words of the block are those of the object.
<1>3. ASSUME NEW i \in DOMAIN k, k[i] \in Words PROVE \E n \in DOMAIN o : o[n] = k[i]
  <2>1. CASE k = o
    BY <2>1
  <2>2. CASE Quoted(k, o)
    <3>1. Len(k) = Len(o) + 2 /\ k[1] \notin Words /\ k[Len(o) + 2] \notin Words
      BY <2>2, TokensDiffer DEF Quoted
    <3>2. i # 1 /\ i # Len(o) + 2
      BY <1>3, <3>1
    <3>3. i - 1 \in 1..Len(o) /\ i - 1 + 1 = i
      BY <1>2, <3>1, <3>2
    <3>4. k[i - 1 + 1] = o[i - 1]
      BY <2>2, <3>3 DEF Quoted
    <3> QED BY <1>2, <3>3, <3>4
  <2> QED BY <2>1, <2>2, BlockType
<1>4. ASSUME NEW n \in DOMAIN o PROVE \E i \in DOMAIN k : k[i] = o[n]
  <2>1. CASE k = o
    BY <2>1
  <2>2. CASE Quoted(k, o)
    <3>1. n + 1 \in DOMAIN k /\ k[n + 1] = o[n]
      BY <1>2, <2>2 DEF Quoted
    <3> QED BY <3>1
  <2> QED BY <2>1, <2>2, BlockType
<1>5. CASE o = <<"open", "close">>
  <2>1. Len(o) = 2 /\ o[1] = "open" /\ o[2] = "close"
    BY <1>5
  <2>2. \A n \in DOMAIN o : n = 1 \/ n = 2
    BY <1>2, <2>1
  <2>3. \A n \in DOMAIN o : o[n] \notin Words
    BY <2>1, <2>2, TokensDiffer
  <2>4. \A i \in DOMAIN k : k[i] \notin Words
    BY <1>3, <2>3
  <2> QED BY <1>5, <2>4, NoWord
<1>6. ASSUME NEW w \in Words, o = <<"open", w, "close">>
      PROVE  Word(k) \in Words /\ o = <<"open", Word(k), "close">>
  <2>1. Len(o) = 3 /\ o[1] = "open" /\ o[2] = w /\ o[3] = "close"
    BY <1>6
  <2>2. \A n \in DOMAIN o : n = 1 \/ n = 2 \/ n = 3
    BY <1>2, <2>1
  <2>3. \A n \in DOMAIN o : o[n] \in Words => o[n] = w
    BY <2>1, <2>2, TokensDiffer
  <2>4. \A i \in DOMAIN k : k[i] \in Words => k[i] = w
    BY <1>3, <2>3
  <2>5. \E i \in DOMAIN k : k[i] \in Words
    <3>1. 2 \in DOMAIN o
      BY <1>2, <2>1
    <3> QED BY <1>4, <2>1, <3>1
  <2>6. Word(k) = w
    BY <2>4, <2>5, WordIs
  <2> QED BY <1>6, <2>6
<1> QED BY <1>5, <1>6 DEF Objects

LEMMA VerdictOfBlock ==
  ASSUME NEW b \in Seq(Tokens), NEW a \in Seq(Tokens), Plain(b \o a),
         NEW o \in Objects \cup {<<>>}, NEW k \in Blocks(o)
  PROVE  LET text == b \o k \o a
         IN  /\ ParseReviewDecision(text) = IF Meaning[Word(k)] # "none" THEN Meaning[Word(k)]
                                            ELSE Gravest(text)
             /\ k # <<>> => ExtractJson(text) = o
<1>1. Meaning["perhaps"] = "none"
  BY DEF Meaning, Words
<1>2. CASE o \in Objects
  <2> DEFINE text == b \o k \o a
  <2>1. ExtractJsonBlock(text) = o /\ ExtractJson(text) = o
    BY <1>2, ObjectIsFound
  <2> HIDE DEF text
  <2>2. CASE o = <<"open", "close">> /\ Word(k) = "perhaps"
    <3>1. ExtractJsonBlock(text) # Panic
      BY <2>1, <2>2, Triples, Zenon
    <3>2. \A w \in Words : ExtractJsonBlock(text) # <<"open", w, "close">>
      BY <2>1, <2>2, Triples, Zenon
    <3>3. ParseReviewDecision(text) = Gravest(text)
      BY <3>1, <3>2, DecisionWithoutObject
    <3> QED BY <1>1, <2>1, <2>2, <3>3 DEF text
  <2>3. CASE Word(k) \in Words /\ o = <<"open", Word(k), "close">>
    <3>1. ExtractJsonBlock(text) = <<"open", Word(k), "close">>
      BY <2>1, <2>3
    <3>2. ParseReviewDecision(text) = IF Meaning[Word(k)] # "none" THEN Meaning[Word(k)]
                                      ELSE Gravest(text)
      BY <2>3, <3>1, DecisionOfObject
    <3> QED BY <2>1, <3>2 DEF text
  <2> QED BY <1>2, <2>2, <2>3, WordOfBlock
<1>3. CASE o = <<>>
  <2>1. k = <<>>
    BY <1>3 DEF Blocks
  <2> DEFINE text == b \o k \o a
  <2>2. ExtractJsonBlock(text) = NoText
    BY <2>1, NothingIsFound
  <2> HIDE DEF text
  <2>3. ParseReviewDecision(text) = Gravest(text)
    <3>1. ExtractJsonBlock(text) # Panic
      BY <2>2, Triples, Zenon
    <3>2. \A w \in Words : ExtractJsonBlock(text) # <<"open", w, "close">>
      BY <2>2, Triples, Zenon
    <3> QED BY <3>1, <3>2, DecisionWithoutObject
  <2>4. Word(k) = "perhaps"
    <3>1. DOMAIN k = {}
      BY <2>1
    <3> QED BY <3>1, NoWord
  <2> QED BY <1>1, <2>1, <2>3, <2>4 DEF text
<1> QED BY <1>2, <1>3

\* parse_review_decision and extract_json read the object of any text, and what
\* parse_review_decision takes for approval is no objection.
THEOREM VerdictsAreRead == ISpec => []VerdictIsRead
<1>1. Reading => VerdictIsRead
  <2> SUFFICES ASSUME Reading, Done("text") PROVE VerdictIsRead
    BY DEF VerdictIsRead
  <2> DEFINE text == input.before \o input.block \o input.after
  <2>1. input \in Texts /\ output = [decision |-> ParseReviewDecision(text), json |-> ExtractJson(text)]
    BY KindsAreDisjoint, Zenon
  <2>2. /\ input.before \in Seq(Tokens) /\ input.block \in Seq(Tokens) /\ input.after \in Seq(Tokens)
        /\ input.object \in Objects \cup {<<>>} /\ input.block \in Blocks(input.object)
    BY <2>1 DEF Texts
  <2>3. output.decision = ParseReviewDecision(text) /\ output.json = ExtractJson(text)
    BY <2>1
  <2>4. text \in Seq(Tokens)
    BY <2>2, Places
  <2>5. Plain(input.before \o input.after) =>
          /\ ParseReviewDecision(text) = IF Meaning[Word(input.block)] # "none"
                                         THEN Meaning[Word(input.block)] ELSE Gravest(text)
          /\ input.block # <<>> => ExtractJson(text) = input.object
    BY <2>2, VerdictOfBlock
  <2>6. ParseReviewDecision(text) = "approved" =>
          \/ Gravest(text) = "approved"
          \/ \E i \in 1..Len(text) - 2 : SubSeq(text, i, i + 2) = <<"open", "lgtm", "close">>
    BY <2>4, ApprovalIsSaid, Zenon
  <2> QED BY <2>3, <2>5, <2>6, Zenon DEF VerdictIsRead, Gravest
<1> QED BY <1>1, ReadingHolds, PTL
=============================================================================
