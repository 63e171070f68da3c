-------------------------- MODULE ActivityLimiter --------------------------
(***************************************************************************)
(* WalletActivityLimiter (wallet_tracker/services/utils/activity_limiter)  *)
(* keeps, per wallet, a deque of recent timestamps and the time at which   *)
(* the wallet was blacklisted.  Every call runs to its end on the event    *)
(* loop, so one call is one action; the clock moves between calls.  The    *)
(* clock is monotone: a wall clock set back while the program runs is not  *)
(* modelled.                                                               *)
(*                                                                         *)
(* `log' is a history variable: the deque without the pruning.             *)
(***************************************************************************)
EXTENDS Integers, Sequences

CONSTANTS
  Wallets,     \* wallet addresses
  Window,      \* activity_window_seconds
  MaxTx,       \* max_tx_per_window
  TTL,         \* blacklist_ttl_seconds
  None,        \* "not in the dictionary"
  MaxTime,     \* bound: the last second of a behaviour
  MaxRecords   \* bound: recorded transactions per wallet

\* The defaults are 60, 15 and 7200: a ban outlasts the window, which is what
\* lets a wallet come back with nothing left in its deque.
ASSUME LimiterAssumption ==
  /\ Window \in Nat /\ MaxTx \in Nat /\ TTL \in Nat
  /\ Window <= TTL
  /\ MaxTime \in Nat /\ MaxRecords \in Nat
  /\ None \notin Nat

VARIABLES
  now,          \* time.time()
  activity,     \* _wallet_activity: wallet -> deque of timestamps
  blacklisted,  \* _blacklisted_wallets: wallet -> timestamp, or None
  log           \* history: every timestamp ever appended

limiterVars == <<activity, blacklisted, log>>
vars == <<now, activity, blacklisted, log>>

Init ==
  /\ now = 0
  /\ activity = [w \in Wallets |-> <<>>]
  /\ blacklisted = [w \in Wallets |-> None]
  /\ log = [w \in Wallets |-> <<>>]

Tick ==
  /\ now < MaxTime
  /\ now' = now + 1
  /\ UNCHANGED limiterVars

-----------------------------------------------------------------------------
\* Operators named <definition>_<fault> are faulty variants of the definition
\* that follows them; no specification uses them.  They show that the properties
\* below notice the fault.

\* is_blacklisted: what it returns, and the entry it leaves in the dictionary.
Expired_NoTTL(w) == blacklisted[w] # None /\ now > blacklisted[w]

Expired(w) == blacklisted[w] # None /\ now - blacklisted[w] > TTL

Blacklisted(w) == blacklisted[w] # None /\ ~Expired(w)

EntryAfterLookup_Sentinel(w) == IF Expired(w) THEN -1 ELSE blacklisted[w]
EntryAfterLookup_Unconditional(w) == None

EntryAfterLookup(w) == IF Expired(w) THEN None ELSE blacklisted[w]

IsBlacklisted(w) ==
  /\ blacklisted' = [blacklisted EXCEPT ![w] = EntryAfterLookup(w)]
  /\ UNCHANGED <<now, activity, log>>

\* The popleft loop: it stops at the first entry that is not before cutoff.
Stale_Inclusive(s, cutoff) ==
  CHOOSE n \in 0..Len(s) : /\ \A i \in 1..n : s[i] <= cutoff
                           /\ n < Len(s) => s[n + 1] > cutoff

Stale(s, cutoff) ==
  CHOOSE n \in 0..Len(s) : /\ \A i \in 1..n : s[i] < cutoff
                           /\ n < Len(s) => s[n + 1] >= cutoff

Prune(s, cutoff) == SubSeq(s, Stale(s, cutoff) + 1, Len(s))

\* The deque of w once this call has appended to it and pruned it.
Recorded(w) == Prune(Append(activity[w], now), now - Window)

OverLimit(s) == Len(s) > MaxTx

\* A transaction that counts: append, prune, blacklist above the limit.
RecordQualifying(w) ==
  /\ ~Blacklisted(w)
  /\ Len(log[w]) < MaxRecords
  /\ activity' = [activity EXCEPT ![w] = Recorded(w)]
  /\ blacklisted' = [blacklisted EXCEPT ![w] =
                       IF OverLimit(Recorded(w)) THEN now ELSE None]
  /\ log' = [log EXCEPT ![w] = Append(@, now)]
  /\ UNCHANGED now

\* record_and_check(w, qualifying).  For a blacklisted wallet, or one whose
\* transaction does not count, only the lookup leaves a trace.
RecordAndCheck(w, qualifying) ==
  \/ /\ Blacklisted(w) \/ ~qualifying
     /\ IsBlacklisted(w)
  \/ /\ qualifying
     /\ RecordQualifying(w)

\* What record_and_check returns.
Verdict(w, qualifying) ==
  Blacklisted(w) \/ (qualifying /\ OverLimit(Recorded(w)))

Next ==
  \/ Tick
  \/ \E w \in Wallets :
       \/ IsBlacklisted(w)
       \/ \E qualifying \in BOOLEAN : RecordAndCheck(w, qualifying)

Spec == Init /\ [][Next]_vars

-----------------------------------------------------------------------------
TypeOK ==
  /\ now \in Nat
  /\ activity \in [Wallets -> Seq(Nat)]
  /\ blacklisted \in [Wallets -> Nat \cup {None}]
  /\ log \in [Wallets -> Seq(Nat)]

\* The deque never holds more than one entry above the limit, whatever the
\* order of calls: the call that reaches MaxTx + 1 entries blacklists, nothing
\* is recorded during the ban, and by the time the ban is over every entry of
\* the deque is outside the window and goes with the next append.
DequeBound == \A w \in Wallets : Len(activity[w]) <= MaxTx + 1

\* A wallet comes back from a ban with a clean slate: if it is not blacklisted
\* and its deque is still above the limit, everything in the deque is too old
\* to be counted again.
CleanSlate ==
  \A w \in Wallets : ~Blacklisted(w) /\ Len(activity[w]) > MaxTx =>
    \A i \in 1..Len(activity[w]) : activity[w][i] < now - Window

\* A blacklisted wallet earned it: the transactions counted against it are
\* more than MaxTx and all lie within one window that ends when it was
\* blacklisted.
BlacklistJustified ==
  \A w \in Wallets : blacklisted[w] # None =>
    /\ Len(activity[w]) > MaxTx
    /\ \A i \in 1..Len(activity[w]) :
         activity[w][i] \in (blacklisted[w] - Window)..blacklisted[w]

\* The deque is in the order of time and holds nothing from the future.
DequeSorted ==
  \A w \in Wallets : \A i, j \in 1..Len(activity[w]) :
    i <= j => activity[w][i] <= activity[w][j] /\ activity[w][j] <= now

BanInPast == \A w \in Wallets : blacklisted[w] # None => blacklisted[w] <= now

\* Pruning loses nothing that counts: the deque is what is left of the history
\* when a prefix is cut off, and all of the prefix is outside the window.
DequeIsSuffix ==
  \A w \in Wallets : \E k \in 0..Len(log[w]) :
    /\ Len(activity[w]) = Len(log[w]) - k
    /\ \A i \in 1..Len(activity[w]) : activity[w][i] = log[w][k + i]
    /\ \A i \in 1..k : log[w][i] < now - Window

\* The inductive invariant behind DequeBound, CleanSlate and BlacklistJustified.
LimiterInv ==
  /\ TypeOK
  /\ DequeSorted
  /\ BanInPast
  /\ BlacklistJustified
  /\ DequeBound
  /\ CleanSlate

\* A ban is served in full and never prolonged: while it lasts no call changes
\* its start or removes it, so further traffic of the wallet cannot push its
\* end away.
BanServedInFull ==
  [][\A w \in Wallets : Blacklisted(w) => blacklisted'[w] = blacklisted[w]]_vars

\* The limiter with its pruned deque decides exactly as the rule stated on the
\* whole history does.
Rule == INSTANCE SlidingWindow WITH ban <- blacklisted
ImplementsRule == Rule!Spec
=============================================================================
