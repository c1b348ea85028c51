------------------------------ MODULE NdiEvents ------------------------------
(***************************************************************************)
(* The start of the NDI (nas_ndi_init) and its event thread, composed with *)
(* the port map.                                                           *)
(*                                                                         *)
(* SAI reports a batch of link changes in one callback.  The callback      *)
(* writes one record after the other to a socket pair; _ndi_event_push, a  *)
(* thread that nas_ndi_init starts before there is a port map, reads them, *)
(* translates the object to a port with the reverse table of the map and   *)
(* calls what the upper layer has registered.  Ports are created and       *)
(* deleted meanwhile, so that the translation is that of the moment of the *)
(* read, and the port may be another by the time the call is made.         *)
(*                                                                         *)
(* A record that cannot be written is lost with a log; the socket is taken *)
(* to be large enough, which MaxEvents makes it here.                      *)
(***************************************************************************)
EXTENDS NdiPortMap, Sequences

CONSTANTS
    MaxEvents,  \* bound: the changes SAI reports in a behaviour
    NoEvent     \* the thread holds no record

LinkState == {"up", "down"}
SwitchEvent(st) == [of |-> "switch", state |-> st]
PortEvent(s, st) == [of |-> s, state |-> st]
Event == [of : SaiPort \cup {"switch"}, state : LinkState]

ASSUME EventsAssumption ==
    /\ MaxEvents \in Nat
    /\ "switch" \notin SaiPort
    /\ NoEvent \notin Event

VARIABLES
    init,       \* how far nas_ndi_init has come before the port map
    oper,       \* hardware: the link of each SAI port, and of the switch
    batch,      \* the records the callback of SAI has still to write
    queue,      \* the socket pair
    hand,       \* the record the event thread works on
    found,      \* the port the thread has translated it to
    listener,   \* is port_oper_status_change_cb set?
    told,       \* the last state passed to it, by port
    npuOper,    \* npu_oper_status of the NDI database
    owed,       \* history: what was reported while it could be passed on
    sent        \* history: changes reported so far

evars == <<init, oper, batch, queue, hand, found, listener, told, npuOper, owed, sent>>

EInit ==
    /\ Init
    /\ init = "off"
    /\ oper = [x \in SaiPort \cup {"switch"} |-> "down"]
    /\ batch = <<>> /\ queue = <<>>
    /\ hand = NoEvent
    /\ found = NoPort
    /\ listener = FALSE
    /\ told = [p \in HwPort |-> "none"]
    /\ npuOper = "down"
    /\ owed = {}
    /\ sent = 0

-----------------------------------------------------------------------------
(* nas_ndi_init: the thread, then the switch, then the port map.           *)

StartThread ==
    /\ init = "off"
    /\ init' = "thread"
    /\ UNCHANGED <<vars, oper, batch, queue, hand, found, listener, told, npuOper, owed, sent>>

\* create_switch is given the callbacks; SAI may report from here on, with
\* neither the locks nor the tables of the port map made.
CreateSwitch ==
    /\ init = "thread"
    /\ init' = "switch"
    /\ UNCHANGED <<vars, oper, batch, queue, hand, found, listener, told, npuOper, owed, sent>>

\* The socket, the thread, the tables of SAI's functions or the switch fail:
\* the start ends, nothing is taken down.  What fails later is BootFails.
InitFails ==
    /\ "boot" \in MayFail
    /\ init \in {"off", "thread"}
    /\ init' = "failed"
    /\ boot' = "down"
    /\ UNCHANGED <<tbl, rev, sai, brport, known, stuck, wr, rd>>
    /\ UNCHANGED <<oper, batch, queue, hand, found, listener, told, npuOper, owed, sent>>

\* A step of the port map.  A port that leaves SAI loses its link, and one
\* that leaves SAI or the map is no longer owed anything.
PortMapStep ==
    /\ init = "switch"
    /\ Next
    /\ oper' = [x \in DOMAIN oper |->
                    IF x \in SaiPort /\ sai'[x] = NoPort THEN "down" ELSE oper[x]]
    /\ owed' = {x \in owed : x \in SaiPort => rev'[x] = rev[x] /\ sai'[x] = sai[x]}
    /\ UNCHANGED <<init, batch, queue, hand, found, listener, told, npuOper, sent>>

\* A failed start is the end of the process; the thread goes on until then.
Failed == init = "failed" /\ UNCHANGED <<vars, evars>>

\* ndi_port_oper_state_notify_register.
Register ==
    /\ boot = "up"
    /\ ~listener
    /\ listener' = TRUE
    /\ UNCHANGED <<vars, init, oper, batch, queue, hand, found, told, npuOper, owed, sent>>

-----------------------------------------------------------------------------
(* The callbacks of SAI.                                                   *)

Flip(st) == IF st = "up" THEN "down" ELSE "up"

\* The links of ports x, in this order, change and are reported in one batch.
LinksChange(x) ==
    /\ init = "switch"
    /\ batch = <<>>
    /\ sent + Len(x) <= MaxEvents
    /\ \A i \in 1 .. Len(x) : ExistsInSai(x[i])
    /\ oper' = [s \in DOMAIN oper |->
                    IF \E i \in 1 .. Len(x) : x[i] = s THEN Flip(oper[s]) ELSE oper[s]]
    /\ batch' = [i \in 1 .. Len(x) |-> PortEvent(x[i], Flip(oper[x[i]]))]
    /\ sent' = sent + Len(x)
    /\ UNCHANGED <<vars, init, queue, hand, found, listener, told, npuOper, owed>>

SwitchChanges ==
    /\ init = "switch"
    /\ batch = <<>>
    /\ sent < MaxEvents
    /\ oper' = [oper EXCEPT !["switch"] = Flip(@)]
    /\ batch' = <<SwitchEvent(Flip(oper["switch"]))>>
    /\ sent' = sent + 1
    /\ UNCHANGED <<vars, init, queue, hand, found, listener, told, npuOper, owed>>

\* Does a record reach somebody, if its port stays as it is?  One of an earlier
\* life of the object may tell of a link that is no longer.
CanBeTold(e) ==
    \/ e.of = "switch"
    \/ /\ listener
       /\ rev[e.of] # NoPort /\ ExistsInSai(e.of)
       /\ oper[e.of] = e.state

\* send_nas_event, once for each entry of the batch.
Send ==
    /\ batch # <<>>
    /\ queue' = Append(queue, Head(batch))
    /\ batch' = Tail(batch)
    /\ owed' = IF CanBeTold(Head(batch)) THEN owed \cup {Head(batch).of} ELSE owed
    /\ UNCHANGED <<vars, init, oper, hand, found, listener, told, npuOper, sent>>

-----------------------------------------------------------------------------
(* The event thread.                                                       *)

\* Mutant: the newest record is taken.
ReceiveNewest ==
    /\ init # "off"
    /\ hand = NoEvent /\ queue # <<>>
    /\ hand' = queue[Len(queue)]
    /\ queue' = SubSeq(queue, 1, Len(queue) - 1)
    /\ UNCHANGED <<vars, init, oper, batch, found, listener, told, npuOper, owed, sent>>

\* receive_nas_event.
Receive ==
    /\ init # "off"
    /\ hand = NoEvent /\ queue # <<>>
    /\ hand' = Head(queue)
    /\ queue' = Tail(queue)
    /\ UNCHANGED <<vars, init, oper, batch, found, listener, told, npuOper, owed, sent>>

\* ndi_switch_state_change_cb_int.
TakeSwitch ==
    /\ hand # NoEvent /\ hand.of = "switch"
    /\ npuOper' = hand.state
    /\ hand' = NoEvent
    /\ UNCHANGED <<vars, init, oper, batch, queue, found, listener, told, owed, sent>>

\* Mutant: a record that no port has is kept for another attempt.
TranslateOrWait ==
    /\ hand # NoEvent /\ hand.of # "switch"
    /\ found = NoPort
    /\ rev[hand.of] # NoPort
    /\ found' = rev[hand.of]
    /\ UNCHANGED <<vars, init, oper, batch, queue, hand, listener, told, npuOper, owed, sent>>

\* ndi_npu_port_id_get, under sai_port_map_rwlock: a record of an object that
\* is no port of the map is dropped.
Translate ==
    /\ hand # NoEvent /\ hand.of # "switch"
    /\ found = NoPort
    /\ found' = rev[hand.of]
    /\ hand' = IF found' = NoPort THEN NoEvent ELSE hand
    /\ UNCHANGED <<vars, init, oper, batch, queue, listener, told, npuOper, owed, sent>>

\* The rest of ndi_port_state_change_cb_int, with no lock held.
Deliver ==
    /\ found # NoPort
    /\ told' = IF listener THEN [told EXCEPT ![found] = hand.state] ELSE told
    /\ found' = NoPort
    /\ hand' = NoEvent
    /\ UNCHANGED <<vars, init, oper, batch, queue, listener, npuOper, owed, sent>>

\* _ndi_event_push.
EventThread == Receive \/ TakeSwitch \/ Translate \/ Deliver

\* Two ports at most change together: a longer batch is longer, not different.
Batches == {<<s>> : s \in SaiPort} \cup {<<s, t>> : s \in SaiPort, t \in SaiPort}

ENext ==
    \/ StartThread
    \/ CreateSwitch
    \/ InitFails
    \/ PortMapStep
    \/ Failed
    \/ Register
    \/ \E x \in Batches : (\A i, j \in 1 .. Len(x) : x[i] = x[j] => i = j) /\ LinksChange(x)
    \/ SwitchChanges
    \/ Send
    \/ EventThread

\* A callback of SAI and the thread run to their end; nothing else is sure to.
Fairness == WF_<<vars, evars>>(Send) /\ WF_<<vars, evars>>(EventThread)

ESpec == EInit /\ [][ENext]_<<vars, evars>> /\ Fairness

-----------------------------------------------------------------------------
(* Properties.                                                             *)

\* What the upper layer and the NDI database hold of x is what it is.
IsTold(x) ==
    IF x = "switch" THEN npuOper = oper[x] ELSE told[rev[x]] = oper[x]

\* Nothing is under way between SAI and the upper layer.
Delivered == batch = <<>> /\ queue = <<>> /\ hand = NoEvent

\* Once everything is delivered, a port that changed while it was mapped and
\* listened to, and has been mapped to the same index since, was last told as
\* it is: neither a record left from a port that had its index before, nor
\* one of an earlier life of the same object, is the last word.
ToldAgrees == Delivered => \A x \in owed : IsTold(x)

\* However creates and deletes go on, every such change is told in the end,
\* unless the port leaves the map.
EventuallyTold ==
    \A x \in SaiPort \cup {"switch"} :
        x \in owed ~> (x \notin owed \/ (IsTold(x) /\ Delivered))
=============================================================================
