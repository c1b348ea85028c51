------------------------------ MODULE NdiMirror ------------------------------
(***************************************************************************)
(* Mirroring sessions and the ports that mirror to them                    *)
(* (nas_ndi_mirror.cpp).                                                   *)
(*                                                                         *)
(* SAI takes the whole list of a port's sessions at once, so NDI keeps one *)
(* per port and direction, changes it first and undoes the change when SAI *)
(* refuses.  A port without a SAI port is reported as a success: `return   *)
(* false' is STD_ERR_OK in a function that returns t_std_error.            *)
(***************************************************************************)
EXTENDS Integers, Sequences, SequencesExt, NdiPortIds

CONSTANTS
    Session,
    Direction, \* the directions of mirroring: ingress, egress
    Lag        \* the LAGs a session may send to

VARIABLES
    session,  \* sessions in SAI: the port or LAG they send to
    list,     \* port_to_mirror_id_map
    mirrored, \* the sessions SAI has on a port in a direction
    told,     \* the sessions the NAS was told are on a port
    apart     \* history: keys that a refusal, a false success or a deleted port has parted

mirrorVars == <<session, list, mirrored, told, apart>>

MirrorKey == Port \X Direction
Destination == Port \cup Lag

\* The sessions, the lists and the answers are of their types.
MirrorTypeOK ==
    /\ session \in [Session -> Destination \cup {None}]
    /\ list \in [MirrorKey -> Seq(Session)]
    /\ mirrored \in [MirrorKey -> SUBSET Session]
    /\ told \in [MirrorKey -> SUBSET Session]
    /\ apart \subseteq MirrorKey

MirrorInit ==
    /\ session = [s \in Session |-> None]
    /\ list = [k \in MirrorKey |-> <<>>]
    /\ mirrored = [k \in MirrorKey |-> {}]
    /\ told = [k \in MirrorKey |-> {}]
    /\ apart = {}

Settled(k) == ToSet(list[k]) = mirrored[k] /\ told[k] = mirrored[k]

\* The keys that differ: those a step has just parted, and those parted before.
Apart(ks) == apart' = {k \in apart \cup ks : ~Settled(k)'}

-----------------------------------------------------------------------------
(* Sessions.                                                               *)

\* ndi_mirror_fill_common_attr: the destination must translate.
Translates(t) == t \in Lag \/ PortIdGet(t)

CreateSession(s, t) ==
    /\ session[s] = None
    /\ \/ /\ Translates(t)
          /\ session' = [session EXCEPT ![s] = t]
       \/ UNCHANGED session \* the port is not mapped, or SAI refuses
    /\ UNCHANGED <<list, mirrored, told, apart>>

\* SAI refuses to remove a session in use.
DeleteSession(s, inUse) ==
    /\ session[s] # None
    /\ \/ /\ ~inUse /\ \A k \in MirrorKey : s \notin mirrored[k]
          /\ session' = [session EXCEPT ![s] = None]
       \/ UNCHANGED session
    /\ UNCHANGED <<list, mirrored, told, apart>>

\* ndi_mirror_update_session: one attribute; only the destination is kept here.
UpdateSession(s, t) ==
    /\ session[s] # None
    /\ \/ /\ Translates(t)
          /\ session' = [session EXCEPT ![s] = t]
       \/ UNCHANGED session
    /\ UNCHANGED <<list, mirrored, told, apart>>

-----------------------------------------------------------------------------
(* Ports.                                                                  *)

\* ndi_mirror_get_port_to_id_list.
ListAfter(l, s, enable) ==
    CASE enable /\ Contains(l, s)  -> l
      [] enable /\ ~Contains(l, s) -> Append(l, s)
      [] ~enable                   -> Only(l, ToSet(l) \ {s})

\* Mutant: the list is not put back.
LeftAsIs(l, s, enable) == l

\* The opposite change, when SAI refuses.
RolledBack(l, s, enable) == ListAfter(l, s, ~enable)

ToldAfter(k, s, enable) ==
    [told EXCEPT ![k] = IF enable THEN @ \cup {s} ELSE @ \ {s}]

\* ndi_mirror_update_direction.
UpdateDirection(s, k, enable) ==
    /\ session[s] # None
    /\ enable \/ Contains(list[k], s) \* else it fails
    /\ LET after == ListAfter(list[k], s, enable)
       IN  \/ /\ ~PortIdGet(k[1]) \* reported as a success
              /\ list' = [list EXCEPT ![k] = after]
              /\ told' = ToldAfter(k, s, enable)
              /\ UNCHANGED mirrored
              /\ Apart({k})
           \/ /\ PortIdGet(k[1])
              /\ \A x \in ToSet(after) : session[x] # None \* else SAI refuses
              /\ list' = [list EXCEPT ![k] = after]
              /\ mirrored' = [mirrored EXCEPT ![k] = ToSet(after)]
              /\ told' = ToldAfter(k, s, enable)
              /\ Apart({})
           \/ /\ PortIdGet(k[1])
              /\ list' = [list EXCEPT ![k] = RolledBack(after, s, enable)]
              /\ UNCHANGED <<mirrored, told>>
              /\ Apart(IF enable /\ Contains(list[k], s) THEN {k} ELSE {})
    /\ UNCHANGED session

\* The lists of a port that is deleted stay; SAI's go with it.
MirrorPortGone(p) ==
    /\ \A s \in Session : session[s] # p \* else SAI refuses
    /\ mirrored' = [k \in MirrorKey |-> IF k[1] = p THEN {} ELSE mirrored[k]]
    /\ UNCHANGED <<session, list, told>>
    /\ Apart({k \in MirrorKey : k[1] = p})

MirrorNext(inUse) ==
    \/ \E s \in Session, t \in Destination : CreateSession(s, t) \/ UpdateSession(s, t)
    \/ \E s \in Session : DeleteSession(s, s \in inUse)
    \/ \E s \in Session, k \in MirrorKey, enable \in BOOLEAN : UpdateDirection(s, k, enable)

-----------------------------------------------------------------------------
(* Properties.                                                             *)

\* The list NDI keeps of a port's sessions, SAI's list and what the NAS was told
\* are the same sessions, whatever was refused in between: an enabled session
\* is not lost and a refused one is not carried along by the next change.  The
\* keys in `apart' differ until a later success settles them: a session enabled
\* again and refused leaves NDI's list, a port that is not mapped is reported
\* as a success, and a port's lists outlive its SAI port.
MirroredAsTold == \A k \in MirrorKey \ apart : Settled(k)
=============================================================================
