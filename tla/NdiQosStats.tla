---------------------------- MODULE NdiQosStats ----------------------------
(***************************************************************************)
(* The statistics of queues, priority groups and buffer pools, as a poller *)
(* reads and clears them (nas_ndi_qos_queue.cpp,                           *)
(* nas_ndi_qos_priority_group.cpp, nas_ndi_qos_buffer_pool.cpp).           *)
(*                                                                         *)
(* The three files are written alike.  A poller names counters of the NAS; *)
(* those SAI does not have are left out of SAI's list and are zero in the  *)
(* answer, so the positions of the two lists differ.  SAI's refusal of a   *)
(* request changes nothing and is a stuttering step.                       *)
(***************************************************************************)
EXTENDS Integers, Sequences, SequencesExt, Functions, NdiCommon

CONSTANTS
    Polled,  \* what is polled: "queue", "group", "pool"
    MaxIds,  \* bound on the ids of a request
    MaxCount \* bound on what is counted between two readings

ASSUME StatsAssumption ==
    /\ Polled \subseteq {"queue", "group", "pool"}
    /\ MaxIds \in Nat /\ MaxCount \in Nat

VARIABLES
    stat, \* what SAI has counted
    owed  \* history: what was counted and not given to the poller yet

statVars == <<stat, owed>>

\* What the NAS may ask for.
StatId == {"PACKETS", "WATERMARK", "DROPPED"}

-----------------------------------------------------------------------------
(* Which counters SAI has.                                                 *)

\* nas2sai_queue_counter_type_get.
QueueStat(snapshot) ==
    IF snapshot THEN [WATERMARK |-> "snapshot watermark"]
    ELSE [PACKETS |-> "packets", WATERMARK |-> "watermark", DROPPED |-> "dropped"]

\* nas2sai_priority_group_counter_type_get.
GroupStat(snapshot) ==
    IF snapshot THEN [WATERMARK |-> "snapshot watermark"]
    ELSE [PACKETS |-> "packets", WATERMARK |-> "watermark"]

\* nas2sai_buffer_pool_counter_type_get.
PoolStat(snapshot) ==
    IF snapshot THEN [WATERMARK |-> "snapshot watermark"]
    ELSE [WATERMARK |-> "watermark", DROPPED |-> "dropped"]

StatMap(o, snapshot) ==
    CASE o = "queue" -> QueueStat(snapshot)
      [] o = "group" -> GroupStat(snapshot)
      [] o = "pool"  -> PoolStat(snapshot)

SaiStat == {"packets", "watermark", "dropped", "snapshot watermark"}

-----------------------------------------------------------------------------
(* Answers.                                                                *)

Asks(o, ids, snapshot) == Only(ids, DOMAIN StatMap(o, snapshot))

\* The ids SAI is asked for: those it has, in the order of the request.
SaiList(o, ids, snapshot) ==
    LET asks == Asks(o, ids, snapshot)
    IN  [j \in DOMAIN asks |-> StatMap(o, snapshot)[asks[j]]]

\* Mutant: the answer to the i-th id is the i-th of SAI's.
SamePosition(o, ids, snapshot, i) ==
    Min({i, Len(SaiList(o, ids, snapshot))})

\* The position in SAI's answer of the i-th id: how many of the first i it has.
Position(o, ids, snapshot, i) == Len(Asks(o, SubSeq(ids, 1, i), snapshot))

\* ndi_qos_get_extended_queue_statistics: the answers, in the order of the
\* request, zero for an id SAI does not have.
Answers(o, ids, snapshot) ==
    LET list == SaiList(o, ids, snapshot)
        sai == [j \in DOMAIN list |-> stat[o][list[j]]]
    IN  [i \in DOMAIN ids |-> IF ids[i] \in DOMAIN StatMap(o, snapshot)
                              THEN sai[Position(o, ids, snapshot, i)] ELSE 0]

Cleared(o, ids, snapshot) ==
    LET asked == ToSet(SaiList(o, ids, snapshot))
    IN  [stat EXCEPT ![o] = [s \in SaiStat |-> IF s \in asked THEN 0 ELSE @[s]]]

\* ndi_qos_get_extended_priority_group_statistics and its like, reading and
\* clearing.  The poller adds each answer to its own count of the id's counter.
ReadAndClear(o, ids, snapshot) ==
    /\ stat' = Cleared(o, ids, snapshot)
    /\ owed' = [owed EXCEPT ![o] = [s \in SaiStat |->
          LET places == {i \in DOMAIN ids : /\ ids[i] \in DOMAIN StatMap(o, snapshot)
                                            /\ StatMap(o, snapshot)[ids[i]] = s}
          IN  IF places = {} THEN @[s]
              ELSE @[s] - Answers(o, ids, snapshot)[CHOOSE i \in places : TRUE]]]

\* ndi_qos_clear_extended_queue_statistics and its like: when SAI has none of
\* the ids, a success without a call.
ClearStatistics(o, ids, snapshot) ==
    /\ SaiList(o, ids, snapshot) # <<>>
    /\ stat' = Cleared(o, ids, snapshot)
    /\ owed' = [owed EXCEPT ![o] = [s \in SaiStat |->
          IF s \in ToSet(SaiList(o, ids, snapshot)) THEN 0 ELSE @[s]]]

\* Traffic, which SAI counts.
Counted(o, s) ==
    /\ s \in Range(StatMap(o, FALSE)) \cup Range(StatMap(o, TRUE))
    /\ stat[o][s] < MaxCount
    /\ stat' = [stat EXCEPT ![o][s] = @ + 1]
    /\ owed' = [owed EXCEPT ![o][s] = @ + 1]

StatsInit ==
    /\ stat = [o \in Polled |-> [s \in SaiStat |-> 0]]
    /\ owed = stat

\* The requests of a poller: no id twice.
Requests ==
    {ids \in BoundedSeq(StatId, MaxIds) : \A i, j \in DOMAIN ids : ids[i] = ids[j] => i = j}

StatsNext ==
    \/ \E o \in Polled, ids \in Requests, snapshot \in BOOLEAN :
          ReadAndClear(o, ids, snapshot) \/ ClearStatistics(o, ids, snapshot)
    \/ \E o \in Polled, s \in SaiStat : Counted(o, s)

-----------------------------------------------------------------------------
(* Properties.                                                             *)

\* A poller that reads and clears, asking for any ids in any order, snapshots or
\* not, gets everything SAI has counted under the counter that counted it:
\* nothing is lost and nothing is given twice or under another id, although the
\* ids SAI does not have leave gaps between the request and SAI's answer.
CountsKept == owed = stat
=============================================================================
