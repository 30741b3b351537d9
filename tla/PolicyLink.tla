----------------------------- MODULE PolicyLink -----------------------------
(***************************************************************************)
(* How the compositor comes by the policy it enforces: the policyd.sock    *)
(* link as ec-abyss keeps it (policy/link.rs: dial, the key pinned for the *)
(* session, the redial timer), the enforcement table it accepts over it    *)
(* (policy/table.rs), and the end that pushes tables (ec-policyd, main.rs: *)
(* recompile, watch, hold).                                                *)
(*                                                                         *)
(* A table is its version and the key that signed it.  A version is a time *)
(* in milliseconds, here a small natural; recompiles are seconds apart     *)
(* (WATCH), so the clock has moved whenever one runs.                      *)
(***************************************************************************)
EXTENDS Integers, SequencesExt

CONSTANTS
  Keys,            \* issuing keys policyd may load
  NoKey,           \* no key
  MaxTime,         \* bound on the clock
  MaxDeaths,       \* bound on policyd's deaths
  MaxDrops,        \* bound on the connections the compositor drops by itself
  MaxNewKeys       \* bound on the restarts that find another issuing key

ASSUME PolicyLinkAssumption ==
  /\ NoKey \notin Keys /\ Keys # {}
  /\ {MaxTime, MaxDeaths, MaxDrops, MaxNewKeys} \subseteq Nat

VARIABLES
  hook,     \* whether the agents add-on is on
  busy,     \* Link::busy
  refused,  \* Link::refused
  pinned,   \* Link::pinned
  retry,    \* whether the redial timer is armed
  conn,     \* the connection: "none", "waiting" to be accepted, "held", or
            \* "gone" when policyd is gone from its end
  key,      \* AbyssState::policy_key
  table,    \* AbyssState::policy_table, NoTable before the first
  toAbyss,  \* what policyd sent on the live connection and nobody read
  up,       \* whether policyd runs
  issuer,   \* policyd's issuing key
  pushed,   \* Push::version, 0 before the first compile succeeds
  now,      \* the clock
  back,     \* whether the clock was ever stepped back
  deaths, drops, newKeys  \* how many so far

abyssVars   == <<hook, busy, refused, pinned, retry, conn, key, table>>
policydVars == <<up, issuer, pushed, now, back, deaths, newKeys>>
vars == <<abyssVars, policydVars, toAbyss, drops>>

Table == [version : 1..MaxTime, key : Keys]
NoTable == [version |-> 0, key |-> NoKey]

Offer(k)    == [kind |-> "offer", key |-> k]
Push(n, k)  == [kind |-> "table", key |-> k, version |-> n]
Messages    == [kind : {"offer"}, key : Keys]
                 \cup [kind : {"table"}, key : Keys, version : 1..MaxTime]

-----------------------------------------------------------------------------
(* The compositor.                                                         *)

(* dial: a connection is in the loop, its key not offered yet.             *)
Dial ==
  /\ up
  /\ conn' = "waiting" /\ busy' = TRUE /\ retry' = FALSE
  /\ UNCHANGED <<refused, pinned, key, table, toAbyss>>

(* arm_retry                                                               *)
ArmRetry_Idle == busy' = FALSE /\ retry' = TRUE
ArmRetry == busy' = TRUE /\ retry' = TRUE

(* start, when the add-on is turned on.                                    *)
HookOn ==
  /\ ~hook /\ hook' = TRUE
  /\ IF busy \/ refused
     THEN UNCHANGED <<busy, refused, pinned, retry, conn, key, table, toAbyss>>
     ELSE \/ Dial
          \/ /\ ~up /\ ArmRetry
             /\ UNCHANGED <<refused, pinned, conn, key, table, toAbyss>>
  /\ UNCHANGED <<policydVars, drops>>

(* The add-on is turned off: the connection stays.                         *)
HookOff ==
  /\ hook /\ hook' = FALSE
  /\ UNCHANGED <<busy, refused, pinned, retry, conn, key, table, toAbyss, policydVars, drops>>

(* The redial timer.  A failed dial leaves it armed.                       *)
RetryFires ==
  /\ retry
  /\ IF refused \/ ~hook
     THEN /\ busy' = FALSE /\ retry' = FALSE
          /\ UNCHANGED <<refused, pinned, conn, key, table, toAbyss>>
     ELSE Dial
  /\ UNCHANGED <<hook, policydVars, drops>>

(* down: the key is dropped, the pin and the table stay, and unless the    *)
(* key was refused the link is redialled.                                  *)
Down_OnlyOnceUp(wasRefused) ==
  /\ conn' = "none" /\ key' = NoKey /\ toAbyss' = <<>>
  /\ refused' = wasRefused
  /\ IF wasRefused \/ key = NoKey THEN busy' = FALSE /\ retry' = FALSE ELSE ArmRetry
Down(wasRefused) ==
  /\ conn' = "none" /\ key' = NoKey /\ toAbyss' = <<>>
  /\ refused' = wasRefused
  /\ IF wasRefused THEN busy' = FALSE /\ retry' = FALSE ELSE ArmRetry

(* pin: the first key offered, or the same again.                          *)
Pinnable_Any(k) == TRUE
Pinnable(k) == pinned \in {NoKey, k}

(* readable_into, before the link has a key: the first message is the      *)
(* offer.                                                                  *)
ReadOffer ==
  LET m == Head(toAbyss)
  IN  /\ conn # "none" /\ key = NoKey /\ toAbyss # <<>>
      /\ IF Pinnable(m.key)
         THEN /\ pinned' = m.key /\ key' = m.key /\ toAbyss' = Tail(toAbyss)
              /\ UNCHANGED <<busy, refused, retry, conn>>
         ELSE Down(TRUE) /\ UNCHANGED pinned
      /\ UNCHANGED <<hook, table, policydVars, drops>>

(* table::accept: signed by the pinned key, and forward of the live one.   *)
Acceptable(m) == m.key = key /\ m.version > table.version

(* table::receive *)
ReadTable ==
  LET m == Head(toAbyss)
  IN  /\ conn # "none" /\ key # NoKey /\ toAbyss # <<>>
      /\ toAbyss' = Tail(toAbyss)
      /\ table' = IF Acceptable(m) THEN [version |-> m.version, key |-> m.key] ELSE table
      /\ UNCHANGED <<hook, busy, refused, pinned, retry, conn, key, policydVars, drops>>

(* readable: the end of the connection.  policyd closed it, and what it    *)
(* had sent may be lost with it; or a message was malformed or oversized.  *)
Closed ==
  /\ conn # "none"
  /\ \/ conn = "gone" /\ UNCHANGED drops
     \/ conn # "gone" /\ drops < MaxDrops /\ drops' = drops + 1
  /\ Down(refused)
  /\ UNCHANGED <<hook, pinned, table, policydVars>>

-----------------------------------------------------------------------------
(* policyd.                                                                *)

(* hold: the key offer, then the table there is.  The connection is        *)
(* registered and given the table under the lock recompile takes, so no    *)
(* table is missed and none comes second that is older.                    *)
Hold_OfferOnly ==
  /\ conn = "waiting" /\ conn' = "held"
  /\ toAbyss' = <<Offer(issuer)>>
  /\ UNCHANGED <<hook, busy, refused, pinned, retry, key, table, policydVars, drops>>
Hold ==
  /\ conn = "waiting" /\ conn' = "held"
  /\ toAbyss' = <<Offer(issuer)>> \o (IF pushed = 0 THEN <<>> ELSE <<Push(pushed, issuer)>>)
  /\ UNCHANGED <<hook, busy, refused, pinned, retry, key, table, policydVars, drops>>

(* The wall clock, which somebody may have set back.                       *)
ReadClock ==
  /\ now' \in 1..MaxTime
  /\ back' = (back \/ now' <= now)

(* The version of the next table, at time n after a table of version v.    *)
NextVersion(n, v) == IF n > v THEN n ELSE v + 1

(* recompile, when watch saw the policy directories change.                *)
Recompile ==
  /\ up
  /\ ReadClock
  /\ pushed' = NextVersion(now', pushed) /\ pushed' <= MaxTime
  /\ toAbyss' = IF conn = "held" THEN Append(toAbyss, Push(pushed', issuer)) ELSE toAbyss
  /\ UNCHANGED <<abyssVars, up, issuer, deaths, newKeys, drops>>

Die ==
  /\ up /\ deaths < MaxDeaths
  /\ up' = FALSE /\ pushed' = 0 /\ deaths' = deaths + 1
  /\ conn' = IF conn = "none" THEN "none" ELSE "gone"
  /\ UNCHANGED <<hook, busy, refused, pinned, retry, key, table, toAbyss, issuer, now, back, newKeys, drops>>

(* main: the key is loaded, or generated when the file is gone, and the    *)
(* policy is compiled before anything is served; a compile that fails      *)
(* leaves no table.                                                        *)
StartUp ==
  /\ ~up /\ up' = TRUE
  /\ \/ UNCHANGED <<issuer, newKeys>>
     \/ newKeys < MaxNewKeys /\ newKeys' = newKeys + 1 /\ issuer' \in Keys \ {issuer}
  /\ ReadClock
  /\ pushed' \in {0, NextVersion(now', 0)}
  /\ UNCHANGED <<abyssVars, toAbyss, deaths, drops>>

-----------------------------------------------------------------------------
Init ==
  /\ hook = FALSE /\ busy = FALSE /\ refused = FALSE /\ pinned = NoKey
  /\ retry = FALSE /\ conn = "none" /\ key = NoKey /\ table = NoTable
  /\ toAbyss = <<>> /\ up = FALSE
  /\ issuer \in Keys /\ pushed = 0 /\ now = 0 /\ back = FALSE
  /\ deaths = 0 /\ drops = 0 /\ newKeys = 0

Next ==
  \/ HookOn \/ HookOff \/ RetryFires \/ ReadOffer \/ ReadTable \/ Closed
  \/ Hold \/ Recompile \/ Die \/ StartUp

Spec == Init /\ [][Next]_vars

(* The event loop runs its timer and its readable source, and policyd's    *)
(* accept thread accepts; nothing makes policyd start or a human turn the  *)
(* add-on on.                                                              *)
FairSpec ==
  /\ Spec
  /\ WF_vars(RetryFires) /\ WF_vars(ReadOffer) /\ WF_vars(ReadTable)
  /\ WF_vars(Closed /\ conn = "gone") /\ WF_vars(Hold)

-----------------------------------------------------------------------------
TypeOK ==
  /\ hook \in BOOLEAN /\ busy \in BOOLEAN /\ refused \in BOOLEAN
  /\ pinned \in Keys \cup {NoKey} /\ retry \in BOOLEAN
  /\ conn \in {"none", "waiting", "held", "gone"} /\ key \in Keys \cup {NoKey}
  /\ table \in Table \cup {NoTable}
  /\ toAbyss \in Seq(Messages)
  /\ up \in BOOLEAN /\ issuer \in Keys
  /\ pushed \in 0..MaxTime /\ now \in 0..MaxTime /\ back \in BOOLEAN
  /\ deaths \in Nat /\ drops \in Nat /\ newKeys \in Nat

(* Link::busy is exactly "a connection exists or a redial is armed", never *)
(* both, so the add-on switched off and on between two retries neither     *)
(* dials a second connection nor leaves the link with nobody to dial it.   *)
BusyIsOwed ==
  /\ busy <=> (conn # "none" \/ retry)
  /\ ~(conn # "none" /\ retry)

(* Whatever policyd restarts with, the compositor acts on one key per      *)
(* session: the key in use, and the one that signed the live table, are    *)
(* the pinned one (link.rs pin, F-05).                                     *)
OneKeyPerSession ==
  /\ key # NoKey => key = pinned /\ conn # "none"
  /\ table # NoTable => table.key = pinned

(* With the link up and no table on its way, the compositor enforces       *)
(* nothing older than what policyd pushed last, and exactly that as long   *)
(* as the clock goes forward, whatever deaths, redials and recompiles came *)
(* in between (main.rs recompile, hold; table.rs accept).                  *)
PushedIsEnforced ==
  (/\ key # NoKey /\ conn = "held" /\ pushed > 0
   /\ \A i \in 1..Len(toAbyss) : toAbyss[i].kind # "table")
  => table.version >= pushed /\ (~back => table.version = pushed)

(* The live table is never replaced by an older one or by another of the   *)
(* same version, nor dropped, over any sequence of reconnections (table.rs *)
(* accept, "no rollback").                                                 *)
TableGoesForward == [][table' # table => table'.version > table.version]_table

(* While the add-on stays on and policyd stays up with the pinned key, the *)
(* link comes up, whatever happened before: no order of deaths, failed     *)
(* dials and switches leaves it down (link.rs start, arm_retry, down).     *)
LinkStaysWanted == hook /\ up /\ pinned \in {NoKey, issuer}
LinkComesBack == <>[]LinkStaysWanted => <>[](key # NoKey \/ refused)
=============================================================================
