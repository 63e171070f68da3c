----------------------- MODULE ActivityLimiterProofs -----------------------
(***************************************************************************)
(* Theorems about the activity limiter, for every set of wallets, window,  *)
(* limit and ban length with Window <= TTL.                                *)
(***************************************************************************)
EXTENDS ActivityLimiter, FiniteSetTheorems, SequenceTheorems, WellFoundedInduction, TLAPS

-----------------------------------------------------------------------------
(* Pruning *)

LEMMA LeastNat ==
  ASSUME NEW T, T \subseteq Nat, T # {}
  PROVE  \E x \in T : \A y \in T : x <= y
<1>1. \E x \in T : \A y \in T : ~ (<<y, x>> \in OpToRel(<, Nat))
  BY NatLessThanWellFounded, WFMin
<1>2. PICK x \in T : \A y \in T : ~ (<<y, x>> \in OpToRel(<, Nat))
  BY <1>1
<1>3. ASSUME NEW y \in T PROVE x <= y
  <2>1. x \in Nat /\ y \in Nat /\ <<y, x>> \in Nat \X Nat
    OBVIOUS
  <2>2. ~ (<<y, x>> \in OpToRel(<, Nat))
    BY <1>2
  <2>3. <<y, x>>[1] = y /\ <<y, x>>[2] = x
    OBVIOUS
  <2>4. ~ (y < x)
    BY <2>1, <2>2, <2>3 DEF OpToRel
  <2>5. QED BY <2>1, <2>4
<1>4. QED BY <1>3

\* The loop stops somewhere: the number of entries it drops is well defined.
LEMMA StaleExists ==
  ASSUME NEW s \in Seq(Nat), NEW c \in Int
  PROVE  \E n \in 0..Len(s) : /\ \A i \in 1..n : s[i] < c
                              /\ n < Len(s) => s[n + 1] >= c
<1> DEFINE Kept == {k \in 1..Len(s) : s[k] >= c}
<1>1. CASE Kept = {}
  <2>1. \A i \in 1..Len(s) : s[i] < c
    BY <1>1
  <2>2. QED BY <2>1
<1>2. CASE Kept # {}
  <2>1. PICK k \in Kept : \A j \in Kept : k <= j
    <3>1. Kept \subseteq Nat
      OBVIOUS
    <3>2. QED BY <1>2, <3>1, LeastNat
  <2>2. k - 1 \in 0..Len(s) /\ (k - 1) + 1 = k
    BY <2>1
  <2>3. \A i \in 1..(k - 1) : s[i] < c
    BY <2>1
  <2>4. QED BY <2>1, <2>2, <2>3
<1>3. QED BY <1>1, <1>2

\* What pruning returns: a suffix of the deque, cut where the first entry not
\* before the cutoff stands.
LEMMA PruneProperties ==
  ASSUME NEW s \in Seq(Nat), NEW c \in Int
  PROVE  /\ Prune(s, c) \in Seq(Nat)
         /\ \E n \in 0..Len(s) :
              /\ \A i \in 1..n : s[i] < c
              /\ n < Len(s) => s[n + 1] >= c
              /\ Len(Prune(s, c)) = Len(s) - n
              /\ \A i \in 1..(Len(s) - n) : Prune(s, c)[i] = s[n + i]
<1> DEFINE n == Stale(s, c)
<1>1. /\ n \in 0..Len(s)
      /\ \A i \in 1..n : s[i] < c
      /\ n < Len(s) => s[n + 1] >= c
  BY StaleExists DEF Stale
<1> HIDE DEF n
<1>2. n + 1 \in Int /\ Len(s) \in Nat
  BY <1>1
<1>3. \A i \in (n + 1)..Len(s) : s[i] \in Nat
  BY <1>1, <1>2
<1>4. /\ SubSeq(s, n + 1, Len(s)) \in Seq(Nat)
      /\ Len(SubSeq(s, n + 1, Len(s))) =
           IF n + 1 <= Len(s) THEN Len(s) - (n + 1) + 1 ELSE 0
      /\ \A i \in 1..(Len(s) - (n + 1) + 1) :
           SubSeq(s, n + 1, Len(s))[i] = s[(n + 1) + i - 1]
  BY <1>2, <1>3, SubSeqProperties
<1>5. Prune(s, c) = SubSeq(s, n + 1, Len(s))
  BY DEF Prune, n
<1>6. Len(Prune(s, c)) = Len(s) - n
  BY <1>1, <1>2, <1>4, <1>5
<1>7. \A i \in 1..(Len(s) - n) : Prune(s, c)[i] = s[n + i]
  BY <1>1, <1>2, <1>4, <1>5
<1>8. QED BY <1>1, <1>4, <1>5, <1>6, <1>7

-----------------------------------------------------------------------------
(* The inductive invariant *)

\* What a qualifying record does to the deque of a wallet that is not banned.
LEMMA RecordedProperties ==
  ASSUME LimiterInv, NEW w \in Wallets, ~Blacklisted(w)
  PROVE  /\ Recorded(w) \in Seq(Nat)
         /\ Len(Recorded(w)) <= MaxTx + 1
         /\ \A i, j \in 1..Len(Recorded(w)) :
              i <= j => Recorded(w)[i] <= Recorded(w)[j]
         /\ \A i \in 1..Len(Recorded(w)) : Recorded(w)[i] \in (now - Window)..now
<1> DEFINE s == Append(activity[w], now)
           c == now - Window
           d == activity[w]
<1> USE LimiterAssumption
<1>1. /\ now \in Nat /\ c \in Int
      /\ d \in Seq(Nat) /\ Len(d) \in Nat
      /\ s \in Seq(Nat)
      /\ Len(s) = Len(d) + 1
      /\ \A i \in 1..Len(d) : s[i] = d[i]
      /\ s[Len(d) + 1] = now
  BY AppendProperties DEF LimiterInv, TypeOK
<1>2. /\ \A i, j \in 1..Len(d) : i <= j => d[i] <= d[j] /\ d[j] <= now
      /\ \A i \in 1..Len(d) : d[i] \in Nat
  BY <1>1 DEF LimiterInv, DequeSorted
<1>3. /\ \A i, j \in 1..Len(s) : i <= j => s[i] <= s[j] /\ s[j] <= now
      /\ \A i \in 1..Len(s) : s[i] \in Nat
  <2> SUFFICES ASSUME NEW i \in 1..Len(s), NEW j \in 1..Len(s)
               PROVE  /\ s[i] \in Nat
                      /\ i <= j => s[i] <= s[j] /\ s[j] <= now
    OBVIOUS
  <2> HIDE DEF s, d
  <2>1. CASE j \in 1..Len(d) /\ i \in 1..Len(d) BY <2>1, <1>1, <1>2
  <2>2. CASE j = Len(d) + 1 /\ i \in 1..Len(d) BY <2>2, <1>1, <1>2
  <2>3. CASE i = Len(d) + 1 BY <2>3, <1>1, <1>2
  <2>4. QED BY <1>1, <2>1, <2>2, <2>3
<1>4. PICK n \in 0..Len(s) :
        /\ \A i \in 1..n : s[i] < c
        /\ n < Len(s) => s[n + 1] >= c
        /\ Len(Prune(s, c)) = Len(s) - n
        /\ \A i \in 1..(Len(s) - n) : Prune(s, c)[i] = s[n + i]
  BY <1>1, PruneProperties
<1>5. Recorded(w) = Prune(s, c) /\ Prune(s, c) \in Seq(Nat)
  BY <1>1, PruneProperties DEF Recorded
<1> HIDE DEF s, c, d
<1>6. /\ Len(Recorded(w)) = Len(s) - n
      /\ \A i \in 1..Len(Recorded(w)) : Recorded(w)[i] = s[n + i]
      /\ \A i \in 1..Len(Recorded(w)) : n + i \in 1..Len(s)
  BY <1>1, <1>4, <1>5
<1>7. \A i, j \in 1..Len(Recorded(w)) :
        i <= j => Recorded(w)[i] <= Recorded(w)[j]
  <2> SUFFICES ASSUME NEW i \in 1..Len(Recorded(w)), NEW j \in 1..Len(Recorded(w)),
                      i <= j
               PROVE  Recorded(w)[i] <= Recorded(w)[j]
    OBVIOUS
  <2>1. n + i \in 1..Len(s) /\ n + j \in 1..Len(s) /\ n + i <= n + j
    BY <1>1, <1>4, <1>6
  <2>2. QED BY <2>1, <1>3, <1>6
<1>8. \A i \in 1..Len(Recorded(w)) : Recorded(w)[i] \in (now - Window)..now
  <2> SUFFICES ASSUME NEW i \in 1..Len(Recorded(w))
               PROVE  Recorded(w)[i] \in (now - Window)..now
    OBVIOUS
  <2>1. /\ n + i \in 1..Len(s) /\ n + 1 \in 1..Len(s) /\ n + 1 <= n + i
        /\ n < Len(s)
    BY <1>1, <1>4, <1>6
  <2>2. s[n + 1] >= c /\ s[n + 1] <= s[n + i] /\ s[n + i] <= now
    BY <1>3, <1>4, <2>1
  <2>3. s[n + 1] \in Nat /\ s[n + i] \in Nat
    BY <1>3, <2>1
  <2>4. QED BY <1>1, <1>6, <2>2, <2>3 DEF c
<1>9. Len(Recorded(w)) <= MaxTx + 1
  <2>1. CASE Len(d) <= MaxTx
    BY <2>1, <1>1, <1>4, <1>5
  <2>2. CASE Len(d) > MaxTx
    <3>1. \A i \in 1..Len(d) : d[i] < c
      BY <2>2, <1>1 DEF LimiterInv, CleanSlate, c, d
    <3>2. n >= Len(d)
      <4>1. SUFFICES ASSUME n < Len(d) PROVE FALSE
        BY <1>1, <1>4
      <4>2. n + 1 \in 1..Len(d) /\ n < Len(s)
        BY <4>1, <1>1, <1>4
      <4>3. s[n + 1] < c /\ s[n + 1] >= c /\ s[n + 1] \in Nat
        BY <4>2, <3>1, <1>1, <1>2, <1>4
      <4>4. QED BY <4>3, <1>1
    <3>3. QED BY <3>2, <1>1, <1>4, <1>5
  <2>3. QED BY <1>1, <2>1, <2>2
<1>10. QED BY <1>5, <1>7, <1>8, <1>9

LEMMA InitInv == Init => LimiterInv
<1> SUFFICES ASSUME Init PROVE LimiterInv
  OBVIOUS
<1> USE LimiterAssumption DEF Init
<1>1. TypeOK
  BY DEF TypeOK
<1>2. \A w \in Wallets : Len(activity[w]) = 0 /\ blacklisted[w] = None
  OBVIOUS
<1>3. QED
  BY <1>1, <1>2 DEF LimiterInv, DequeSorted, BanInPast, BlacklistJustified,
                    DequeBound, CleanSlate

LEMMA TickInv == LimiterInv /\ Tick => LimiterInv'
<1> SUFFICES ASSUME LimiterInv, Tick PROVE LimiterInv'
  OBVIOUS
<1> USE LimiterAssumption DEF Tick, limiterVars
<1>1. TypeOK'
  BY DEF LimiterInv, TypeOK
<1>2. now \in Nat /\ now' = now + 1 /\ TypeOK
  BY DEF LimiterInv, TypeOK
<1>3. \A w \in Wallets : /\ Len(activity[w]) \in Nat
                         /\ \A i \in 1..Len(activity[w]) : activity[w][i] \in Nat
                         /\ blacklisted[w] \in Nat \cup {None}
  BY <1>2 DEF TypeOK
<1>4. DequeSorted' /\ BanInPast'
  BY <1>2, <1>3 DEF LimiterInv, DequeSorted, BanInPast
<1>5. BlacklistJustified' /\ DequeBound'
  BY DEF LimiterInv, BlacklistJustified, DequeBound
<1>6. CleanSlate'
  <2> SUFFICES ASSUME NEW w \in Wallets, ~Blacklisted(w)', Len(activity[w]) > MaxTx,
                      NEW i \in 1..Len(activity[w])
               PROVE  activity[w][i] < now' - Window
    BY DEF CleanSlate
  <2>1. CASE ~Blacklisted(w)
    <3>1. activity[w][i] < now - Window
      BY <2>1 DEF LimiterInv, CleanSlate
    <3>2. QED BY <3>1, <1>2, <1>3
  <2>2. CASE Blacklisted(w)
    <3>1. blacklisted[w] # None /\ now' - blacklisted[w] > TTL
      BY <2>2 DEF Blacklisted, Expired
    <3>2. activity[w][i] \in (blacklisted[w] - Window)..blacklisted[w]
      BY <3>1 DEF LimiterInv, BlacklistJustified
    <3>3. QED BY <3>1, <3>2, <1>2, <1>3
  <2>3. QED BY <2>1, <2>2
<1>7. QED BY <1>1, <1>4, <1>5, <1>6 DEF LimiterInv

\* A lookup deletes an entry or changes nothing.
LEMMA LookupInv ==
  ASSUME LimiterInv, NEW w \in Wallets, IsBlacklisted(w)
  PROVE  LimiterInv'
<1> USE LimiterAssumption DEF IsBlacklisted
<1>1. \A v \in Wallets : blacklisted'[v] = blacklisted[v] \/ blacklisted'[v] = None
  BY DEF EntryAfterLookup, LimiterInv, TypeOK
<1>2. TypeOK'
  BY <1>1 DEF LimiterInv, TypeOK, EntryAfterLookup
<1>3. DequeSorted' /\ BanInPast' /\ BlacklistJustified' /\ DequeBound'
  BY <1>1 DEF LimiterInv, DequeSorted, BanInPast, BlacklistJustified, DequeBound
<1>4. \A v \in Wallets : ~Blacklisted(v)' => ~Blacklisted(v)
  BY DEF Blacklisted, Expired, EntryAfterLookup, LimiterInv, TypeOK
<1>5. CleanSlate'
  <2> SUFFICES ASSUME NEW v \in Wallets, ~Blacklisted(v)', Len(activity[v]) > MaxTx,
                      NEW i \in 1..Len(activity[v])
               PROVE  activity[v][i] < now - Window
    BY DEF CleanSlate
  <2>1. ~Blacklisted(v)
    BY <1>4
  <2>2. QED BY <2>1 DEF LimiterInv, CleanSlate
<1>6. QED BY <1>2, <1>3, <1>5 DEF LimiterInv

\* A qualifying record of a wallet that is not banned: the new deque is the
\* window that ends now, and the wallet is blacklisted iff it is above the limit.
LEMMA RecordInv ==
  ASSUME LimiterInv, NEW w \in Wallets, RecordQualifying(w)
  PROVE  LimiterInv'
<1> USE LimiterAssumption
<1> DEFINE r == Recorded(w)
<1>1. /\ r \in Seq(Nat) /\ Len(r) \in Nat /\ Len(r) <= MaxTx + 1
      /\ \A i, j \in 1..Len(r) : i <= j => r[i] <= r[j]
      /\ \A i \in 1..Len(r) : r[i] \in (now - Window)..now
  BY RecordedProperties DEF RecordQualifying
<1> HIDE DEF r
<1>2. /\ now \in Nat /\ now' = now
      /\ activity \in [Wallets -> Seq(Nat)]
      /\ blacklisted \in [Wallets -> Nat \cup {None}]
      /\ activity' = [activity EXCEPT ![w] = r]
      /\ blacklisted' = [blacklisted EXCEPT ![w] = IF Len(r) > MaxTx THEN now ELSE None]
      /\ log' = [log EXCEPT ![w] = Append(@, now)]
  BY DEF LimiterInv, TypeOK, RecordQualifying, OverLimit, r
<1>3. TypeOK'
  <2>1. log \in [Wallets -> Seq(Nat)]
    BY DEF LimiterInv, TypeOK
  <2>2. Append(log[w], now) \in Seq(Nat)
    BY <2>1, <1>2, AppendProperties
  <2>3. QED BY <1>1, <1>2, <2>1, <2>2 DEF TypeOK
<1>4. /\ activity'[w] = r
      /\ blacklisted'[w] = IF Len(r) > MaxTx THEN now ELSE None
      /\ \A v \in Wallets \ {w} : /\ activity'[v] = activity[v]
                                  /\ blacklisted'[v] = blacklisted[v]
  BY <1>2
<1>5. DequeSorted'
  <2> SUFFICES ASSUME NEW v \in Wallets,
                      NEW i \in 1..Len(activity'[v]), NEW j \in 1..Len(activity'[v]),
                      i <= j
               PROVE  activity'[v][i] <= activity'[v][j] /\ activity'[v][j] <= now'
    BY DEF DequeSorted
  <2>1. CASE v = w
    BY <2>1, <1>1, <1>2, <1>4
  <2>2. CASE v # w
    BY <2>2, <1>2, <1>4 DEF LimiterInv, DequeSorted
  <2>3. QED BY <2>1, <2>2
<1>6. BanInPast'
  BY <1>2, <1>4 DEF LimiterInv, BanInPast
<1>7. BlacklistJustified'
  <2> SUFFICES ASSUME NEW v \in Wallets, blacklisted'[v] # None
               PROVE  /\ Len(activity'[v]) > MaxTx
                      /\ \A i \in 1..Len(activity'[v]) : activity'[v][i] \in
                           (blacklisted'[v] - Window)..blacklisted'[v]
    BY DEF BlacklistJustified
  <2>1. CASE v = w
    BY <2>1, <1>1, <1>2, <1>4
  <2>2. CASE v # w
    BY <2>2, <1>4 DEF LimiterInv, BlacklistJustified
  <2>3. QED BY <2>1, <2>2
<1>8. DequeBound'
  BY <1>1, <1>4 DEF LimiterInv, DequeBound
<1>9. CleanSlate'
  <2> SUFFICES ASSUME NEW v \in Wallets, ~Blacklisted(v)', Len(activity'[v]) > MaxTx,
                      NEW i \in 1..Len(activity'[v])
               PROVE  activity'[v][i] < now' - Window
    BY DEF CleanSlate
  <2>1. CASE v = w
    <3>1. blacklisted'[w] = now /\ now # None /\ now' = now
      BY <2>1, <1>2, <1>4
    <3>2. now - now <= TTL
      BY <1>2
    <3>3. Blacklisted(w)'
      BY <3>1, <3>2, <1>2 DEF Blacklisted, Expired
    <3>4. QED BY <2>1, <3>3
  <2>2. CASE v # w
    <3>1. ~Blacklisted(v)
      BY <2>2, <1>2, <1>4 DEF Blacklisted, Expired
    <3>2. QED BY <2>2, <3>1, <1>2, <1>4 DEF LimiterInv, CleanSlate
  <2>3. QED BY <2>1, <2>2
<1>10. QED BY <1>3, <1>5, <1>6, <1>7, <1>8, <1>9 DEF LimiterInv

LEMMA NextInv == LimiterInv /\ [Next]_vars => LimiterInv'
<1> SUFFICES ASSUME LimiterInv, [Next]_vars PROVE LimiterInv'
  OBVIOUS
<1>1. CASE Tick
  BY <1>1, TickInv
<1>2. ASSUME NEW w \in Wallets, IsBlacklisted(w) PROVE LimiterInv'
  BY <1>2, LookupInv
<1>3. ASSUME NEW w \in Wallets, NEW q \in BOOLEAN, RecordAndCheck(w, q)
      PROVE  LimiterInv'
  BY <1>3, LookupInv, RecordInv DEF RecordAndCheck
<1>4. CASE UNCHANGED vars
  BY <1>4 DEF vars, LimiterInv, TypeOK, DequeSorted, BanInPast, BlacklistJustified,
              DequeBound, CleanSlate, Blacklisted, Expired
<1>5. QED BY <1>1, <1>2, <1>3, <1>4 DEF Next

-----------------------------------------------------------------------------
(* Theorems *)

\* The state of the limiter always satisfies its inductive invariant.
THEOREM LimiterInvariant == Spec => []LimiterInv
<1>1. QED BY InitInv, NextInv, PTL DEF Spec

\* Every variable keeps its type.
THEOREM LimiterTypeOK == Spec => []TypeOK
<1>1. LimiterInv => TypeOK
  BY DEF LimiterInv
<1>2. QED BY <1>1, LimiterInvariant, PTL

\* The deque of a wallet never holds more than MaxTx + 1 timestamps: the
\* limiter's memory per wallet is bounded although the ban does not clear it.
THEOREM LimiterDequeBound == Spec => []DequeBound
<1>1. LimiterInv => DequeBound
  BY DEF LimiterInv
<1>2. QED BY <1>1, LimiterInvariant, PTL

\* Whoever is blacklisted made more than MaxTx recorded transactions within
\* one window.
THEOREM LimiterBlacklistJustified == Spec => []BlacklistJustified
<1>1. LimiterInv => BlacklistJustified
  BY DEF LimiterInv
<1>2. QED BY <1>1, LimiterInvariant, PTL

\* After a ban the wallet's old timestamps no longer count against it.
THEOREM LimiterCleanSlate == Spec => []CleanSlate
<1>1. LimiterInv => CleanSlate
  BY DEF LimiterInv
<1>2. QED BY <1>1, LimiterInvariant, PTL

\* A running ban is neither lifted nor prolonged by any call.
THEOREM LimiterBanServedInFull == Spec => BanServedInFull
<1> DEFINE Kept == \A w \in Wallets : Blacklisted(w) => blacklisted'[w] = blacklisted[w]
<1>1. ASSUME LimiterInv, [Next]_vars PROVE [Kept]_vars
  <2> SUFFICES ASSUME NEW w \in Wallets, Blacklisted(w), Next
               PROVE  blacklisted'[w] = blacklisted[w]
    BY <1>1
  <2>1. blacklisted \in [Wallets -> Nat \cup {None}]
    BY <1>1 DEF LimiterInv, TypeOK
  <2>2. CASE Tick
    BY <2>2 DEF Tick, limiterVars
  <2>3. ASSUME NEW v \in Wallets, IsBlacklisted(v)
        PROVE  blacklisted'[w] = blacklisted[w]
    BY <2>1, <2>3 DEF IsBlacklisted, EntryAfterLookup, Blacklisted
  <2>4. ASSUME NEW v \in Wallets, RecordQualifying(v)
        PROVE  blacklisted'[w] = blacklisted[w]
    BY <2>1, <2>4 DEF RecordQualifying
  <2>5. QED BY <2>2, <2>3, <2>4 DEF Next, RecordAndCheck
<1>2. QED BY <1>1, LimiterInvariant, PTL DEF Spec, BanServedInFull

-----------------------------------------------------------------------------
(* The refinement *)

\* A qualifying record cuts another piece off the history: the deque is exactly
\* the part of it that lies in the window that ends now.
LEMMA RecordCuts ==
  ASSUME LimiterInv, DequeIsSuffix, NEW w \in Wallets, RecordQualifying(w)
  PROVE  \E k \in 0..Len(log'[w]) :
           /\ Len(Recorded(w)) = Len(log'[w]) - k
           /\ \A i \in 1..Len(Recorded(w)) : Recorded(w)[i] = log'[w][k + i]
           /\ \A i \in 1..k : log'[w][i] < now - Window
<1> DEFINE d == activity[w]
           s == Append(d, now)
           l == log[w]
           m == log'[w]
           c == now - Window
<1> USE LimiterAssumption
<1>1. /\ now \in Nat /\ c \in Int
      /\ d \in Seq(Nat) /\ Len(d) \in Nat
      /\ l \in Seq(Nat) /\ Len(l) \in Nat
  BY DEF LimiterInv, TypeOK
<1>2. /\ s \in Seq(Nat) /\ Len(s) = Len(d) + 1
      /\ \A i \in 1..Len(d) : s[i] = d[i]
      /\ s[Len(d) + 1] = now
  BY <1>1, AppendProperties
<1>3. m = Append(l, now)
  BY DEF RecordQualifying, LimiterInv, TypeOK
<1>4. /\ Len(m) = Len(l) + 1
      /\ \A i \in 1..Len(l) : m[i] = l[i]
      /\ m[Len(l) + 1] = now
  BY <1>1, <1>3, AppendProperties
<1>5. PICK k \in 0..Len(l) :
        /\ Len(d) = Len(l) - k
        /\ \A i \in 1..Len(d) : d[i] = l[k + i]
        /\ \A i \in 1..k : l[i] < c
  BY DEF DequeIsSuffix
<1>6. PICK n \in 0..Len(s) :
        /\ \A i \in 1..n : s[i] < c
        /\ Len(Prune(s, c)) = Len(s) - n
        /\ \A i \in 1..(Len(s) - n) : Prune(s, c)[i] = s[n + i]
  BY <1>1, <1>2, PruneProperties
<1>7. Recorded(w) = Prune(s, c)
  BY DEF Recorded
<1> HIDE DEF d, s, l, m, c
<1>8. \A i \in 1..Len(s) : s[i] = m[k + i]
  <2> SUFFICES ASSUME NEW i \in 1..Len(s) PROVE s[i] = m[k + i]
    OBVIOUS
  <2>1. CASE i \in 1..Len(d)
    <3>1. k + i \in 1..Len(l)
      BY <2>1, <1>1, <1>5
    <3>2. QED BY <2>1, <3>1, <1>2, <1>4, <1>5
  <2>2. CASE i = Len(d) + 1
    BY <2>2, <1>1, <1>2, <1>4, <1>5
  <2>3. QED BY <2>1, <2>2, <1>1, <1>2
<1>9. k + n \in 0..Len(m) /\ Len(Recorded(w)) = Len(m) - (k + n)
  BY <1>1, <1>2, <1>4, <1>5, <1>6, <1>7
<1>10. ASSUME NEW i \in 1..Len(Recorded(w)) PROVE Recorded(w)[i] = m[(k + n) + i]
  <2>1. i \in 1..(Len(s) - n) /\ n + i \in 1..Len(s)
    BY <1>1, <1>2, <1>6, <1>7
  <2>2. Recorded(w)[i] = s[n + i] /\ s[n + i] = m[k + (n + i)]
    BY <2>1, <1>6, <1>7, <1>8
  <2>3. k + (n + i) = (k + n) + i
    BY <1>5, <1>6
  <2>4. QED BY <2>2, <2>3
<1>11. ASSUME NEW i \in 1..(k + n) PROVE m[i] < c
  <2>1. CASE i \in 1..k
    <3>1. i \in 1..Len(l)
      BY <2>1, <1>1, <1>5
    <3>2. m[i] = l[i] /\ l[i] < c
      BY <2>1, <3>1, <1>4, <1>5
    <3>3. QED BY <3>2
  <2>2. CASE i \in (k + 1)..(k + n)
    <3>1. i - k \in 1..n /\ i - k \in 1..Len(s) /\ k + (i - k) = i
      BY <2>2, <1>2, <1>5, <1>6
    <3>2. QED BY <3>1, <1>6, <1>8
  <2>3. QED BY <2>1, <2>2, <1>5, <1>6
<1>12. QED BY <1>9, <1>10, <1>11 DEF m, c

LEMMA SuffixInit == Init => DequeIsSuffix
<1> SUFFICES ASSUME Init, NEW w \in Wallets
             PROVE  \E k \in 0..Len(log[w]) :
                      /\ Len(activity[w]) = Len(log[w]) - k
                      /\ \A i \in 1..Len(activity[w]) : activity[w][i] = log[w][k + i]
                      /\ \A i \in 1..k : log[w][i] < now - Window
  BY DEF DequeIsSuffix
<1>1. activity[w] = <<>> /\ log[w] = <<>>
  BY DEF Init
<1>2. QED BY <1>1

LEMMA SuffixNext == LimiterInv /\ DequeIsSuffix /\ [Next]_vars => DequeIsSuffix'
<1> SUFFICES ASSUME LimiterInv, DequeIsSuffix, [Next]_vars PROVE DequeIsSuffix'
  OBVIOUS
<1> USE LimiterAssumption
<1>1. /\ now \in Nat /\ \A w \in Wallets : /\ log[w] \in Seq(Nat) /\ Len(log[w]) \in Nat
                                           /\ \A i \in 1..Len(log[w]) : log[w][i] \in Nat
  BY DEF LimiterInv, TypeOK
<1>2. CASE Tick
  <2> SUFFICES ASSUME NEW w \in Wallets
               PROVE  \E k \in 0..Len(log[w]) :
                        /\ Len(activity[w]) = Len(log[w]) - k
                        /\ \A i \in 1..Len(activity[w]) : activity[w][i] = log[w][k + i]
                        /\ \A i \in 1..k : log[w][i] < now' - Window
    BY <1>2 DEF DequeIsSuffix, Tick, limiterVars
  <2>1. PICK k \in 0..Len(log[w]) :
          /\ Len(activity[w]) = Len(log[w]) - k
          /\ \A i \in 1..Len(activity[w]) : activity[w][i] = log[w][k + i]
          /\ \A i \in 1..k : log[w][i] < now - Window
    BY DEF DequeIsSuffix
  <2>2. \A i \in 1..k : log[w][i] < now' - Window
    BY <1>1, <1>2, <2>1 DEF Tick
  <2>3. QED BY <2>1, <2>2
<1>3. ASSUME NEW w \in Wallets, IsBlacklisted(w) PROVE DequeIsSuffix'
  BY <1>3 DEF IsBlacklisted, DequeIsSuffix
<1>4. ASSUME NEW w \in Wallets, RecordQualifying(w) PROVE DequeIsSuffix'
  <2> SUFFICES ASSUME NEW v \in Wallets
               PROVE  \E k \in 0..Len(log'[v]) :
                        /\ Len(activity'[v]) = Len(log'[v]) - k
                        /\ \A i \in 1..Len(activity'[v]) : activity'[v][i] = log'[v][k + i]
                        /\ \A i \in 1..k : log'[v][i] < now - Window
    BY <1>4 DEF DequeIsSuffix, RecordQualifying
  <2>1. CASE v = w
    <3>1. activity'[v] = Recorded(v)
      BY <1>4, <2>1 DEF RecordQualifying, LimiterInv, TypeOK
    <3>2. \E k \in 0..Len(log'[w]) :
            /\ Len(Recorded(w)) = Len(log'[w]) - k
            /\ \A i \in 1..Len(Recorded(w)) : Recorded(w)[i] = log'[w][k + i]
            /\ \A i \in 1..k : log'[w][i] < now - Window
      BY <1>4, RecordCuts
    <3>3. activity'[w] = Recorded(w)
      BY <2>1, <3>1
    <3>4. \E k \in 0..Len(log'[w]) :
            /\ Len(activity'[w]) = Len(log'[w]) - k
            /\ \A i \in 1..Len(activity'[w]) : activity'[w][i] = log'[w][k + i]
            /\ \A i \in 1..k : log'[w][i] < now - Window
      BY <3>2, <3>3, Zenon
    <3>5. QED BY <2>1, <3>4, Zenon
  <2>2. CASE v # w
    <3>1. activity'[v] = activity[v] /\ log'[v] = log[v]
      BY <1>4, <2>2 DEF RecordQualifying, LimiterInv, TypeOK
    <3>2. QED BY <3>1 DEF DequeIsSuffix
  <2>3. QED BY <2>1, <2>2
<1>5. CASE UNCHANGED vars
  BY <1>5 DEF vars, DequeIsSuffix
<1>6. QED BY <1>2, <1>3, <1>4, <1>5 DEF Next, RecordAndCheck

\* The rule's module has Cardinality from an instance of its own.
LEMMA SameCardinality == ASSUME NEW S PROVE Rule!Cardinality(S) = Cardinality(S)
<1>1. QED BY Zenon DEF Rule!Cardinality, Cardinality

\* What the call counts in its deque is what the rule counts in the history.
LEMMA RecordCountsTheWindow ==
  ASSUME LimiterInv, DequeIsSuffix, NEW w \in Wallets, RecordQualifying(w)
  PROVE  Cardinality(Rule!InWindow(log'[w], now)) = Len(Recorded(w))
<1> DEFINE r == Recorded(w)
           m == log'[w]
<1> USE LimiterAssumption
<1>1. now \in Nat /\ m \in Seq(Nat) /\ Len(m) \in Nat
  <2>1. log \in [Wallets -> Seq(Nat)] /\ now \in Nat
    BY DEF LimiterInv, TypeOK
  <2>2. m = Append(log[w], now)
    BY <2>1 DEF RecordQualifying
  <2>3. QED BY <2>1, <2>2, AppendProperties
<1>2. /\ r \in Seq(Nat) /\ Len(r) \in Nat
      /\ \A i \in 1..Len(r) : r[i] \in (now - Window)..now
  BY RecordedProperties DEF RecordQualifying
<1>3. PICK k \in 0..Len(m) :
        /\ Len(r) = Len(m) - k
        /\ \A i \in 1..Len(r) : r[i] = m[k + i]
        /\ \A i \in 1..k : m[i] < now - Window
  BY RecordCuts
<1> HIDE DEF r, m
<1>4. {i \in 1..Len(m) : now - Window <= m[i] /\ m[i] <= now} = (k + 1)..Len(m)
  <2>1. ASSUME NEW i \in 1..Len(m), now - Window <= m[i]
        PROVE  i \in (k + 1)..Len(m)
    <3>1. m[i] \in Nat
      BY <1>1
    <3>2. i \notin 1..k
      BY <1>1, <1>3, <2>1, <3>1
    <3>3. QED BY <1>1, <1>3, <3>2
  <2>2. ASSUME NEW i \in (k + 1)..Len(m)
        PROVE  i \in 1..Len(m) /\ now - Window <= m[i] /\ m[i] <= now
    <3>1. i - k \in 1..Len(r) /\ k + (i - k) = i /\ i \in 1..Len(m)
      BY <1>1, <1>2, <1>3
    <3>2. m[i] = r[i - k] /\ r[i - k] \in (now - Window)..now
      BY <1>2, <1>3, <3>1
    <3>3. QED BY <1>1, <3>1, <3>2
  <2>3. QED BY <2>1, <2>2
<1>5. Cardinality((k + 1)..Len(m)) = Len(m) - k
  <2>1. k + 1 \in Int /\ Len(m) \in Int
    BY <1>1, <1>3
  <2>2. Cardinality((k + 1)..Len(m)) =
          IF k + 1 > Len(m) THEN 0 ELSE Len(m) - (k + 1) + 1
    BY <2>1, FS_Interval
  <2>3. QED BY <2>2, <1>1, <1>3
<1>6. QED BY <1>3, <1>4, <1>5 DEF Rule!InWindow, r, m

\* The limiter with its pruned deque decides as the rule on the whole history
\* does: a qualifying record is the rule's Record, a lookup that finds an expired
\* ban its Lift, and everything else but the clock changes nothing it speaks of.
THEOREM LimiterImplementsRule == Spec => ImplementsRule
<1>1. Init => Rule!Init
  BY DEF Init, Rule!Init
<1>2. ASSUME LimiterInv, DequeIsSuffix, [Next]_vars
      PROVE  [Rule!Next]_(Rule!vars)
  <2> USE LimiterAssumption DEF Rule!vars
  <2>1. CASE Tick
    BY <2>1 DEF Tick, limiterVars, Rule!Tick, Rule!Next
  <2>2. ASSUME NEW w \in Wallets, IsBlacklisted(w)
        PROVE  [Rule!Next]_(Rule!vars)
    <3>1. blacklisted \in [Wallets -> Nat \cup {None}]
      BY <1>2 DEF LimiterInv, TypeOK
    <3>2. CASE Expired(w)
      <4>1. Rule!Lift(w)
        BY <2>2, <3>1, <3>2
           DEF IsBlacklisted, EntryAfterLookup, Expired, Rule!Lift, Rule!Served
      <4>2. QED BY <4>1 DEF Rule!Next
    <3>3. CASE ~Expired(w)
      BY <2>2, <3>1, <3>3 DEF IsBlacklisted, EntryAfterLookup
    <3>4. QED BY <3>2, <3>3
  <2>3. ASSUME NEW w \in Wallets, RecordQualifying(w)
        PROVE  [Rule!Next]_(Rule!vars)
    <3>1. blacklisted[w] = None \/ Rule!Served(w)
      BY <2>3 DEF RecordQualifying, Blacklisted, Expired, Rule!Served
    <3>2. blacklisted' = [blacklisted EXCEPT ![w] =
            IF Rule!Cardinality(Rule!InWindow(log'[w], now)) > MaxTx THEN now ELSE None]
      BY <1>2, <2>3, RecordCountsTheWindow, SameCardinality
         DEF RecordQualifying, OverLimit
    <3>3. Rule!Record(w)
      <4>1. /\ Len(log[w]) < MaxRecords
            /\ log' = [log EXCEPT ![w] = Append(@, now)]
            /\ UNCHANGED now
        BY <2>3 DEF RecordQualifying
      <4>2. QED BY <3>1, <3>2, <4>1, Zenon DEF Rule!Record
    <3>4. QED BY <3>3 DEF Rule!Next
  <2>4. CASE UNCHANGED vars
    BY <2>4 DEF vars
  <2>5. QED BY <1>2, <2>1, <2>2, <2>3, <2>4 DEF Next, RecordAndCheck
<1>3. QED
  BY <1>1, <1>2, SuffixInit, SuffixNext, LimiterInvariant, PTL
     DEF Spec, ImplementsRule, Rule!Spec
=============================================================================
