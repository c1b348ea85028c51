------------------------------- MODULE NdiAcl -------------------------------
(***************************************************************************)
(* ACL tables, entries and counters (nas_ndi_acl.cpp, nas_ndi_acl_utl.cpp).*)
(*                                                                         *)
(* The NAS names what an entry matches and does by types of its own.  NDI  *)
(* translates each to a SAI attribute, by one table for ACL tables and by  *)
(* another for entries, and passes the call on; it keeps nothing.  Several *)
(* types of the NAS are one attribute of SAI: a filter on an interface and *)
(* one on a port, the actions that redirect.                               *)
(***************************************************************************)
EXTENDS NdiMirror

CONSTANTS
    Table, Entry, Counter,
    Good, Bad,   \* a value SAI has, a value no enumeration of SAI has
    FilterLists, \* the lists of types a table is made with
    ActionLists,
    EntryLists,  \* the filters and actions an entry is made with
    MaxUdf,      \* SAI_ACL_TABLE_ATTR_USER_DEFINED_FIELD_GROUP_MAX - MIN + 1
    MaxSet       \* bound on the counts the NAS sets

VARIABLES
    table,   \* tables in SAI: their attributes, and the types they were made with
    entry,   \* entries in SAI: their attributes, and what the NAS was told of them
    counter  \* counters in SAI

aclVars == <<table, entry, counter>>

-----------------------------------------------------------------------------
(* Types.                                                                  *)

\* ndi_acl_utl_ndi2sai_filter_type, for the entries.  The types that share an
\* attribute, one with an enumeration of its own and one that is plain.
FilterField == [IN_PORT |-> "IN_PORT", IN_INTF |-> "IN_PORT",
                IP_TYPE |-> "ACL_IP_TYPE", UDF |-> "UDF_GROUP"]

\* ndi_acl_utl_ndi2sai_tbl_filter_type, for the tables.
TableField == [IN_PORT |-> "IN_PORT", IN_INTF |-> "IN_PORT",
               IP_TYPE |-> "ACL_IP_TYPE", UDF |-> "UDF_GROUP"]

\* ndi_acl_utl_ndi2sai_action_type, for the entries.
ActionField == [REDIRECT_PORT |-> "REDIRECT", REDIRECT_INTF |-> "REDIRECT",
                SET_COUNTER |-> "COUNTER", MIRROR_INGRESS |-> "MIRROR_INGRESS",
                PACKET_ACTION |-> "PACKET_ACTION"]

\* ndi_acl_utl_ndi2sai_action_type, for the tables.
TableAction == [REDIRECT_PORT |-> "REDIRECT", REDIRECT_INTF |-> "REDIRECT",
                SET_COUNTER |-> "COUNTER", MIRROR_INGRESS |-> "MIRROR_INGRESS",
                PACKET_ACTION |-> "PACKET_ACTION"]

\* A filter or an action as the NAS names it, and its number if it is a UDF.
Filter == ((DOMAIN FilterField \cup {"OTHER"}) \ {"UDF"}) \X {0}
            \cup {"UDF"} \X (0 .. MaxUdf - 1)
Action == (DOMAIN ActionField \cup {"OTHER"}) \X {0}
Name == Filter \cup Action

Attr(n) == IF n \in Action THEN <<ActionField[n[1]], n[2]>>
           ELSE <<FilterField[n[1]], n[2]>>

Known(n) == n[1] # "OTHER"
OfPort(n) == n[1] \in {"IN_PORT", "IN_INTF", "REDIRECT_PORT", "REDIRECT_INTF"}

OfEnum(n) == n[1] \in {"IP_TYPE", "PACKET_ACTION"}

\* The values the callers give: a port for a type of ports, an object for one
\* of objects.
ValuesOf(n) == CASE OfPort(n) -> Port
                 [] n[1] = "SET_COUNTER" -> Counter
                 [] n[1] = "MIRROR_INGRESS" -> Session
                 [] OfEnum(n) -> {Good, Bad}
                 [] OTHER -> {Good}
Value == Port \cup Counter \cup Session \cup {Good, Bad}

\* The callers name what they match and do.
ASSUME AclAssumption ==
    /\ MaxUdf \in Nat /\ MaxSet \in Nat
    /\ \A names \in EntryLists : \A n \in DOMAIN names :
          n \in Name /\ names[n] \in ValuesOf(n)

\* _fill_sai_filter_port_attr: the port must be mapped now.
FilterPortTranslates(n, v) == OfPort(n) => PortIdGet(v)

\* _fill_sai_filter_ip_type and its like: a value must be one of SAI's.
FilterEnumTranslates(n, v) == OfEnum(n) => v # Bad

\* ndi_acl_utl_fill_sai_filter.
FillFilter(n, v) == Known(n) /\ FilterPortTranslates(n, v) /\ FilterEnumTranslates(n, v)

\* _fill_sai_action_set_npu_port, _fill_sai_action_set_npu_portlist.
ActionPortTranslates(n, v) == OfPort(n) => PortIdGet(v)

\* _fill_sai_action_pkt_action, _fill_sai_action_pkt_color.
ActionEnumTranslates(n, v) == OfEnum(n) => v # Bad

\* ndi_acl_utl_fill_sai_action.
FillAction(n, v) == Known(n) /\ ActionPortTranslates(n, v) /\ ActionEnumTranslates(n, v)

Fill(n, v) == IF n \in Action THEN FillAction(n, v) ELSE FillFilter(n, v)

-----------------------------------------------------------------------------
(* Tables.                                                                 *)

\* ndi_acl_table_create: the attributes of its filters; a UDF gives one to
\* each of its groups.
TableFields(types, groups) ==
    {<<TableField[x], 0>> : x \in types \ {"UDF"}} \cup {"UDF_GROUP"} \X (0 .. groups - 1)

\* Everything is translated before the one call of SAI, which may refuse.
CreateTable(t, types, groups, actions) ==
    /\ table[t] = None
    /\ \/ /\ types \subseteq DOMAIN TableField
          /\ groups > 0 => "UDF" \in types
          /\ groups <= MaxUdf
          /\ actions \subseteq DOMAIN TableAction
          /\ table' = [table EXCEPT ![t] =
                [fields |-> TableFields(types, groups),
                 actions |-> {TableAction[a] : a \in actions},
                 types |-> types, groups |-> groups]]
       \/ UNCHANGED table
    /\ UNCHANGED <<entry, counter>>

\* SAI refuses to remove a table with entries or counters.
DeleteTable(t) ==
    /\ table[t] # None
    /\ \/ /\ \A e \in Entry : entry[e] # None => entry[e].table # t
          /\ \A c \in Counter : counter[c] # None => counter[c].table # t
          /\ table' = [table EXCEPT ![t] = None]
       \/ UNCHANGED table
    /\ UNCHANGED <<entry, counter>>

-----------------------------------------------------------------------------
(* Entries.                                                                *)

\* SAI takes an attribute the table has, and an object that exists.
SaiTakes(t, n, v, sessions) ==
    /\ IF n \in Action
       THEN table[t].actions = {} \/ Attr(n)[1] \in table[t].actions
       ELSE Attr(n) \in table[t].fields
    /\ n[1] = "SET_COUNTER" => counter[v] # None /\ counter[v].table = t
    /\ n[1] = "MIRROR_INGRESS" => v \in sessions

AttrsOf(names) == [a \in {Attr(n) : n \in DOMAIN names} |->
                    names[CHOOSE n \in DOMAIN names : Attr(n) = a]]

\* Two names of one attribute in one list: SAI has its own say, so do not ask.
OneNameEach(names) == \A m, n \in DOMAIN names : Attr(m) = Attr(n) => m = n

\* ndi_acl_entry_create: every filter and action is translated before SAI is
\* called once.
CreateEntry(e, t, names, sessions) ==
    /\ entry[e] = None /\ table[t] # None
    /\ \/ /\ \A n \in DOMAIN names : Fill(n, names[n])
          /\ OneNameEach(names)
          /\ \A n \in DOMAIN names : SaiTakes(t, n, names[n], sessions)
          /\ entry' = [entry EXCEPT ![e] = [table |-> t, attrs |-> AttrsOf(names),
                                            told |-> names, crossed |-> {}]]
       \/ UNCHANGED entry
    /\ UNCHANGED <<table, counter>>

DeleteEntry(e) ==
    /\ entry[e] # None
    /\ entry' = [entry EXCEPT ![e] = None] \/ UNCHANGED entry
    /\ UNCHANGED <<table, counter>>

With(f, x, v) == [y \in DOMAIN f \cup {x} |-> IF y = x THEN v ELSE f[y]]
Without(f, x) == Restrict(f, DOMAIN f \ {x})

\* The types the NAS has two of for one attribute.
Rivals == {{"IN_PORT", "IN_INTF"}, {"REDIRECT_PORT", "REDIRECT_INTF"}}

\* The attribute of n is set: history, crossed if the entry has it under another
\* name, and settled if not.
Put(e, n, v) ==
    LET old == entry[e]
        others == {m \in DOMAIN old.told : {m[1], n[1]} \in Rivals}
    IN  [entry EXCEPT ![e] =
            [table |-> old.table, attrs |-> With(old.attrs, Attr(n), v),
             told |-> With(old.told, n, v),
             crossed |-> IF others = {} THEN old.crossed \ {Attr(n)}
                         ELSE old.crossed \cup {Attr(n)}]]

\* ndi_acl_entry_set_filter.
SetFilter(e, n, v, sessions) ==
    /\ entry[e] # None
    /\ \/ /\ FillFilter(n, v)
          /\ SaiTakes(entry[e].table, n, v, sessions)
          /\ entry' = Put(e, n, v)
       \/ UNCHANGED entry
    /\ UNCHANGED <<table, counter>>

\* ndi_acl_entry_set_action.
SetAction(e, n, v, sessions) ==
    /\ entry[e] # None
    /\ \/ /\ FillAction(n, v)
          /\ SaiTakes(entry[e].table, n, v, sessions)
          /\ entry' = Put(e, n, v)
       \/ UNCHANGED entry
    /\ UNCHANGED <<table, counter>>

\* SAI disables attribute a, and the NAS is told that the type is: history, the
\* attributes of other numbers stay, and a is taken from a rival.
Drop(e, type, a) ==
    LET old == entry[e]
        names == {n \in DOMAIN old.told : n[1] = type}
        others == {m \in DOMAIN old.told : {m[1], type} \in Rivals}
        stay == {Attr(n) : n \in names} \ {a}
    IN  [entry EXCEPT ![e] =
            [table |-> old.table, attrs |-> Without(old.attrs, a),
             told |-> Restrict(old.told, DOMAIN old.told \ names),
             crossed |-> (IF others = {} THEN old.crossed \ {a}
                          ELSE old.crossed \cup {a}) \cup stay]]

\* ndi_acl_entry_disable_filter: by its type, without the number of a UDF, so
\* that it is the first UDF that is disabled.
DisableFilter(e, type) ==
    /\ entry[e] # None
    /\ \/ /\ type \in DOMAIN FilterField
          /\ entry' = Drop(e, type, <<FilterField[type], 0>>)
       \/ UNCHANGED entry
    /\ UNCHANGED <<table, counter>>

\* ndi_acl_entry_disable_action.
DisableAction(e, type) ==
    /\ entry[e] # None
    /\ \/ /\ type \in DOMAIN ActionField
          /\ entry' = Drop(e, type, <<ActionField[type], 0>>)
       \/ UNCHANGED entry
    /\ UNCHANGED <<table, counter>>

\* ndi_acl_entry_disable_counter_action: whichever counter the entry has, for
\* the counter it is given only fills the parameter of a disabled action.
DisableCounter(e) ==
    /\ entry[e] # None
    /\ \/ entry' = Drop(e, "SET_COUNTER", <<ActionField["SET_COUNTER"], 0>>)
       \/ UNCHANGED entry
    /\ UNCHANGED <<table, counter>>

-----------------------------------------------------------------------------
(* Counters.                                                               *)

CreateCounter(c, t) ==
    /\ counter[c] = None /\ table[t] # None
    /\ counter' = [counter EXCEPT ![c] = [table |-> t, bytes |-> 0, packets |-> 0]]
       \/ UNCHANGED counter
    /\ UNCHANGED <<table, entry>>

UsesCounter(e, c) == entry[e] # None /\ c \in Range(entry[e].attrs)

DeleteCounter(c) ==
    /\ counter[c] # None
    /\ \/ /\ \A e \in Entry : ~UsesCounter(e, c)
          /\ counter' = [counter EXCEPT ![c] = None]
       \/ UNCHANGED counter
    /\ UNCHANGED <<table, entry>>

\* ndi_acl_counter_set_byte_count, ndi_acl_counter_set_pkt_count.
SetCount(c, bytes, packets) ==
    /\ counter[c] # None
    /\ \/ counter' = [counter EXCEPT ![c].bytes = bytes]
       \/ counter' = [counter EXCEPT ![c].packets = packets]
       \/ UNCHANGED counter
    /\ UNCHANGED <<table, entry>>

-----------------------------------------------------------------------------
AclInit ==
    /\ table = [t \in Table |-> None]
    /\ entry = [e \in Entry |-> None]
    /\ counter = [c \in Counter |-> None]

\* SAI keeps a port that an entry names.
PortInAcl(p) == \E e \in Entry : entry[e] # None /\ p \in Range(entry[e].attrs)

\* The sessions an entry mirrors to.
SessionsInAcl ==
    {s \in Session : \E e \in Entry : entry[e] # None /\ s \in Range(entry[e].attrs)}

AclNext(sessions) ==
    \/ \E t \in Table, types \in FilterLists, groups \in 0 .. MaxUdf + 1,
          actions \in ActionLists : CreateTable(t, types, groups, actions)
    \/ \E t \in Table : DeleteTable(t)
    \/ \E e \in Entry, t \in Table, names \in EntryLists : CreateEntry(e, t, names, sessions)
    \/ \E e \in Entry : DeleteEntry(e) \/ DisableCounter(e)
    \/ \E e \in Entry, n \in Filter, v \in Value : v \in ValuesOf(n) /\ SetFilter(e, n, v, sessions)
    \/ \E e \in Entry, n \in Action, v \in Value : v \in ValuesOf(n) /\ SetAction(e, n, v, sessions)
    \/ \E e \in Entry, type \in DOMAIN FilterField : DisableFilter(e, type)
    \/ \E e \in Entry, type \in DOMAIN ActionField : DisableAction(e, type)
    \/ \E c \in Counter, t \in Table : CreateCounter(c, t)
    \/ \E c \in Counter : DeleteCounter(c)
    \/ \E c \in Counter, bytes, packets \in 0 .. MaxSet : SetCount(c, bytes, packets)

-----------------------------------------------------------------------------
(* Properties.                                                             *)

\* What a caller may ask of an entry of table t.
Usable(t) == {n \in Filter : n[1] \in table[t].types /\ (n[1] = "UDF" => n[2] < table[t].groups)}

\* An entry in SAI has exactly the filters and actions the NAS was told it has,
\* whichever of them were set and disabled in between, and a filter type a table
\* was made with is one its entries can use, although the two are translated by
\* different tables.  Two kinds of attribute differ, until the next call on them
\* alone: one the NAS has set or disabled under one name while the entry had it
\* under another, where the last call wins; and a UDF of a number other than the
\* first, which disabling the UDF filters leaves.
EntriesAsTold ==
    /\ \A e \in Entry : entry[e] # None =>
          LET kept == {n \in DOMAIN entry[e].told : Attr(n) \notin entry[e].crossed}
          IN  /\ \A n \in kept : /\ Attr(n) \in DOMAIN entry[e].attrs
                                 /\ entry[e].attrs[Attr(n)] = entry[e].told[n]
              /\ \A a \in DOMAIN entry[e].attrs \ entry[e].crossed : \E n \in kept : Attr(n) = a
    /\ \A t \in Table : table[t] # None => {Attr(n) : n \in Usable(t)} \subseteq table[t].fields
=============================================================================
