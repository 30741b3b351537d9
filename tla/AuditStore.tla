------------------------------ MODULE AuditStore ------------------------------
(***************************************************************************)
(* The S-04 section 4 audit store (ec-policyd, audit.rs): an append-only   *)
(* hash-chained journal in one open segment, current.open, and sealed      *)
(* segments named audit-<date>-<n>.cbor.zst.                               *)
(*                                                                         *)
(* A record's hash is injective, so a fresh number stands for it.  A file  *)
(* that was fsynced is on disk under its name; what was not may be half    *)
(* there when the process dies, and missing too when the power fails.  A   *)
(* write that fails ends the daemon, so it is a ProcessDies.               *)
(***************************************************************************)
EXTENDS Integers, SequencesExt

CONSTANTS
  SegmentLen,    \* records that fill a segment (SEGMENT_BYTES)
  FsyncInterval, \* FSYNC_INTERVAL_MS, in ticks
  MaxHash,       \* bound on the records ever written
  MaxDate,       \* bound on the date
  MaxCrashes     \* bound on process deaths and power losses

ASSUME AuditAssumption ==
  /\ SegmentLen \in Nat /\ SegmentLen > 1
  /\ {FsyncInterval, MaxHash, MaxDate, MaxCrashes} \subseteq Nat

VARIABLES
  sealed,   \* the sealed segment files
  current,  \* the whole frames at the start of current.open
  torn,     \* whether a partial frame follows them
  synced,   \* how many of the whole frames are on disk
  store,    \* the Store in memory: next seq, chain head, frames written
  pc,       \* "down", "idle", or the step rotate is at
  date,     \* the wall clock's date
  since,    \* ticks since the last sync
  hashes,   \* how many records were ever written
  crashes   \* how many crashes there were

vars == <<sealed, current, synced, torn, store, pc, date, since, hashes, crashes>>

Genesis == 0
Records == [seq : Nat, prev : Nat, hash : Nat, anchor : BOOLEAN]

(* A sealed file: its name's date and counter, the records it holds if it  *)
(* is whole, and whether it was fsynced.  A part, were it empty, does not  *)
(* decompress.                                                             *)
Segments == [date : 0..MaxDate, n : Nat, recs : Seq(Records),
             content : {"open", "part", "whole"}, durable : BOOLEAN]

-----------------------------------------------------------------------------
(* Reading the files back (Store::replay, Store::sealed_segments).         *)

(* File names in lexicographic order, and the file that is i-th by name.   *)
Before_ByNumber(a, b) == a.n < b.n \/ (a.n = b.n /\ a.date < b.date)
Before(a, b) == a.date < b.date \/ (a.date = b.date /\ a.n < b.n)

Earlier(fs, f) == { g \in fs : Before(g, f) }
Ranked(fs, i)  == { f \in fs : Cardinality(Earlier(fs, f)) = i - 1 }
InOrder(fs)    == [ i \in 1..Cardinality(fs) |-> CHOOSE f \in Ranked(fs, i) : TRUE ]

Recs(f)       == IF f.content = "whole" THEN f.recs ELSE <<>>
RecordsIn(fs) == FlattenSeq([ i \in 1..Cardinality(fs) |-> Recs(InOrder(fs)[i]) ])
SealedRecords == RecordsIn(sealed)
Files         == SealedRecords \o current

Chains(recs, i) ==
  /\ recs[i].seq = i - 1
  /\ recs[i].prev = IF i = 1 THEN Genesis ELSE recs[i-1].hash

(* How many records verify, from the start.                                *)
Verified(recs) ==
  LET broken == { i \in DOMAIN recs : ~Chains(recs, i) }
  IN  IF broken = {} THEN Len(recs) ELSE Min(broken) - 1

SealedIntact == /\ \A f \in sealed : f.content # "part"
                /\ Verified(SealedRecords) = Len(SealedRecords)

HeadOf(recs) == IF recs = <<>> THEN Genesis ELSE Last(recs).hash

-----------------------------------------------------------------------------
(* Store::open.  A sealed segment is never repaired, so the store opens    *)
(* only when all of them are intact.                                       *)

Opened ==
  /\ store' = [seq |-> Len(Files), head |-> HeadOf(Files), written |-> Len(current)]
  /\ pc' = "idle" /\ torn' = FALSE
  /\ synced' = IF torn THEN Len(current) ELSE synced
  /\ since' = 0
  /\ UNCHANGED <<sealed, current, date, hashes, crashes>>

Start_TrustTail == pc = "down" /\ SealedIntact /\ Opened

(* Everything verifies: a torn tail is cut off and the file synced.        *)
Start ==
  /\ pc = "down" /\ SealedIntact
  /\ Verified(Files) = Len(Files)
  /\ Opened

Quarantine_OnlyCopied ==
  /\ pc = "down" /\ SealedIntact
  /\ Verified(Files) < Len(Files)
  /\ UNCHANGED vars

(* A whole frame that breaks the chain: the open segment is copied aside   *)
(* and cut to what verifies, and this open fails.                          *)
Quarantine ==
  /\ pc = "down" /\ SealedIntact
  /\ Verified(Files) < Len(Files)
  /\ current' = SubSeq(current, 1, Verified(Files) - Len(SealedRecords))
  /\ synced' = Len(current') /\ torn' = FALSE
  /\ UNCHANGED <<sealed, store, pc, date, since, hashes, crashes>>

-----------------------------------------------------------------------------
(* Writing.                                                                *)

SyncDue == since >= FsyncInterval
Synced  == synced' = Len(current') /\ since' = 0

NewRecord(anchor) ==
  [seq |-> store.seq, prev |-> store.head, hash |-> hashes + 1, anchor |-> anchor]

(* Store::append: the frame, the periodic sync, and a rotation when full.  *)
AppendRecord(anchor) ==
  /\ hashes < MaxHash
  /\ hashes' = hashes + 1
  /\ current' = Append(current, NewRecord(anchor))
  /\ store' = [seq |-> store.seq + 1, head |-> hashes', written |-> store.written + 1]
  /\ IF SyncDue THEN Synced ELSE UNCHANGED <<synced, since>>
  /\ pc' = IF store'.written >= SegmentLen THEN "seal" ELSE "idle"
  /\ UNCHANGED <<sealed, torn, date, crashes>>

AppendOne == pc = "idle" /\ AppendRecord(FALSE)

(* Store::sync, for a caller that must have its records on disk.           *)
SyncNow ==
  /\ pc = "idle"
  /\ UNCHANGED current /\ Synced
  /\ UNCHANGED <<sealed, torn, store, pc, date, hashes, crashes>>

(* Store::rotate: sync, then create the sealed file under a free name.     *)
FreeName(d) ==
  Min({ n \in 0..Cardinality(sealed) : \A f \in sealed : f.date = d => f.n # n })

CreateSealed ==
  /\ pc = "seal"
  /\ UNCHANGED current /\ Synced
  /\ sealed' = sealed \cup {[date |-> date, n |-> FreeName(date), recs |-> current,
                             content |-> "open", durable |-> FALSE]}
  /\ pc' = "fill"
  /\ UNCHANGED <<torn, store, date, hashes, crashes>>

(* Write it and fsync it.                                                  *)
FillSealed ==
  /\ pc = "fill"
  /\ sealed' = { IF f.content = "open"
                 THEN [f EXCEPT !.content = "whole", !.durable = TRUE] ELSE f
                 : f \in sealed }
  /\ pc' = "truncate"
  /\ UNCHANGED <<current, synced, torn, store, date, since, hashes, crashes>>

(* Only when it is on disk is the open segment emptied.                    *)
EmptyAt(step) ==
  /\ pc = step
  /\ current' = <<>> /\ synced' = 0 /\ UNCHANGED torn
  /\ store' = [store EXCEPT !.written = 0]
  /\ pc' = "anchor"
  /\ UNCHANGED <<sealed, date, since, hashes, crashes>>

Truncate_First == EmptyAt("fill")
Truncate       == EmptyAt("truncate")

(* The first record of the new segment.                                    *)
WriteAnchor == pc = "anchor" /\ AppendRecord(TRUE)

-----------------------------------------------------------------------------
(* Crashes.  A sealed file that was not fsynced is left in some other      *)
(* state; what a power loss leaves of one is on disk.                      *)

Loose(power) == { f \in sealed : IF power THEN ~f.durable ELSE f.content = "open" }

Fates(f, power) ==
  {"part"} \cup (IF f.content = "part" THEN {} ELSE {"whole"})
           \cup (IF power THEN {"absent"} ELSE {})

Settled(f, fate, power) == [f EXCEPT !.content = fate, !.durable = power]

Crash(power) ==
  /\ crashes < MaxCrashes /\ crashes' = crashes + 1
  /\ pc' = "down"
  /\ store' = [seq |-> 0, head |-> Genesis, written |-> 0]
  /\ torn' \in {torn, TRUE}
  /\ \E fate \in [Loose(power) -> {"absent", "part", "whole"}] :
       /\ \A f \in Loose(power) : fate[f] \in Fates(f, power)
       /\ sealed' = (sealed \ Loose(power)) \cup
            { Settled(f, fate[f], power) : f \in { g \in Loose(power) : fate[g] # "absent" } }
  /\ UNCHANGED <<date, since, hashes>>

ProcessDies ==
  /\ pc # "down"
  /\ Crash(FALSE)
  /\ UNCHANGED <<current, synced>>

PowerLoss ==
  /\ Crash(TRUE)
  /\ \E n \in synced..Len(current) : current' = SubSeq(current, 1, n) /\ synced' = n

Tick ==
  /\ pc = "idle" /\ ~SyncDue
  /\ since' = since + 1
  /\ UNCHANGED <<sealed, current, synced, torn, store, pc, date, hashes, crashes>>

(* The wall clock, which may also be set back.                             *)
NewDate ==
  /\ date' \in {date - 1, date + 1} \cap (0..MaxDate)
  /\ UNCHANGED <<sealed, current, synced, torn, store, pc, since, hashes, crashes>>

Init ==
  /\ sealed = {} /\ current = <<>> /\ synced = 0 /\ torn = FALSE
  /\ store = [seq |-> 0, head |-> Genesis, written |-> 0]
  /\ pc = "down" /\ date = 0
  /\ since = 0 /\ hashes = 0 /\ crashes = 0

Rotation == CreateSealed \/ FillSealed \/ Truncate \/ WriteAnchor
Opening  == Start \/ Quarantine

Next == Opening \/ AppendOne \/ SyncNow \/ Rotation
          \/ ProcessDies \/ PowerLoss \/ Tick \/ NewDate

Spec == Init /\ [][Next]_vars

(* A rotation that was begun goes on, and the service manager starts the   *)
(* daemon again whenever it is down.                                       *)
FairSpec == Spec /\ WF_vars(Rotation) /\ WF_vars(Opening)

-----------------------------------------------------------------------------
(* Properties.                                                             *)

(* Every variable holds what its comment says it does.                     *)
TypeOK ==
  /\ sealed \subseteq Segments
  /\ current \in Seq(Records) /\ synced \in 0..Len(current)
  /\ torn \in BOOLEAN /\ date \in 0..MaxDate /\ hashes \in 0..MaxHash
  /\ pc \in {"down", "idle", "seal", "fill", "truncate", "anchor"}
  /\ store \in [seq : Nat, head : Nat, written : Nat]
  /\ since \in 0..FsyncInterval /\ crashes \in 0..MaxCrashes

(* The records in files that can be read, and the chain they are: from the *)
(* first record on, up to one that no file has.                            *)
Copies   == (UNION { Range(Recs(f)) : f \in sealed }) \cup Range(current)
Upto(S)  == Min({ n \in 0..MaxHash : \A r \in S : r.seq # n })
LogIn(S) == [ i \in 1..Upto(S) |-> CHOOSE r \in S : r.seq = i - 1 ]
Log      == LogIn(Copies)

(* How many of those, from the first one on, a power loss would leave.     *)
OnDisk  == (UNION { Range(Recs(f)) : f \in { s \in sealed : s.durable } })
             \cup Range(SubSeq(current, 1, synced))
Kept(recs, disk) ==
  Min({Len(recs)} \cup { i - 1 : i \in { j \in DOMAIN recs : recs[j] \notin disk } })
Durable == Kept(Log, OnDisk)

(* A process died between filling a sealed file and fsyncing it, and the   *)
(* file is read back though nothing ever put it on disk.                   *)
Unfinished == \E f \in sealed : f.content = "whole" /\ ~f.durable

(* The segments, a rotation caught at any step by a crash, quarantine and  *)
(* repair included, are one log that only grows at its end, and loses no   *)
(* record that is on disk but those that an unfinished seal has to itself. *)
J == INSTANCE Journal WITH log <- Log, durable <- Durable, unfinished <- Unfinished
ImplementsJournal == J!Spec

(* While the daemon runs, whatever files earlier crashes left, the store's *)
(* own position is the end of the one chain on disk: the next record       *)
(* continues it, and no record on disk is off it.                          *)
ChainContinues ==
  pc # "down" =>
    /\ Verified(Log) = Len(Log) /\ Copies = Range(Log)
    /\ store = [seq |-> Len(Log), head |-> HeadOf(Log), written |-> Len(current)]

(* No segment has an earlier date than one sealed before it.               *)
DatesAscend ==
  \A f, g \in sealed :
    f.content = "whole" /\ g.content = "whole" /\ Head(f.recs).seq < Head(g.recs).seq
      => f.date <= g.date

(* But for the moment in which a rotation has two copies, reading the      *)
(* files by name finds all of the log and nothing twice, if the segments'  *)
(* dates are in the order they were sealed in.                             *)
ReplayFindsLog == pc \notin {"down", "truncate"} /\ DatesAscend => Files = Log

(* A sealed segment is half written, or one before another is missing.     *)
SealLost ==
  LET recs == UNION { Range(Recs(f)) : f \in sealed }
  IN  \/ \E f \in sealed : f.content = "part"
      \/ \E r \in recs : r.seq > Upto(recs)

(* Whatever step a crash interrupted, starting again succeeds, at most     *)
(* after one start that quarantines and fails, unless a crash took a seal  *)
(* or the segments' dates are out of order.                                *)
ComesBack == pc = "down" ~> pc = "idle" \/ SealLost \/ ~DatesAscend

(* "A sealed segment is never repaired -- it is finished" (audit.rs:316):  *)
(* no sealed file is half written when the store is read back.             *)
SealedIsFinished == pc = "down" => \A f \in sealed : f.content # "part"

(* "Forces everything written so far to durable storage" (audit.rs:446):   *)
(* once so much of the log is on disk, it stays there.                     *)
SyncedIsKept == [][Durable' >= Durable]_vars

(* "Sorting the names sorts the segments" (audit.rs:550).                  *)
NamesSortSegments ==
  \A f, g \in sealed :
    f.content = "whole" /\ g.content = "whole" /\ Before(f, g)
      => Head(f.recs).seq < Head(g.recs).seq
===============================================================================
