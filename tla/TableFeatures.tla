------------------------- MODULE TableFeatures -------------------------
(***************************************************************************)
(* Table features requests: reassembly of a request sent in fragments,    *)
(* one buffer per controller, the change of the whole pipeline's tables,  *)
(* and the segmented reply (pipeline.c, with the merge of ofl-messages.c  *)
(* and the life of a remote in datapath.c).                               *)
(*                                                                         *)
(* The features of a table are reduced to the request they came with and  *)
(* whether they ask for more entries than a table can have.               *)
(***************************************************************************)
EXTENDS Naturals, Sequences, SequencesExt, FiniteSets

CONSTANTS
    Remotes,           \* controllers
    Xids,              \* transaction identifiers they use
    Bodies,            \* table lists of a fragment: sequences of [id, big]
    PIPELINE_TABLES,   \* 64
    SEGMENT,           \* 8: tables per segment of the reply
    MaxFragments       \* bound: fragments sent in all

VARIABLES
    tables,   \* [disabled, by] for every table
    mp_req,   \* the reassembly buffer of every remote
    answer,   \* what the last request got: an error, nothing yet, or segments
    gone,     \* the process was aborted
    history   \* fragments of the request in the buffer; number of fragments

tfVars == <<tables, mp_req, answer, gone, history>>

TableIds == 0..(PIPELINE_TABLES - 1)
Factory == [remote |-> "none", xid |-> 0]
NoBuffer == [held |-> FALSE, xid |-> 0, tables |-> <<>>]

flow_table_create == [disabled |-> FALSE, by |-> Factory]
remote_create == NoBuffer

(* The fragment's tables join the ones in the buffer.                      *)
ofl_msg_merge_multipart_request_table_features(buf, f) ==
    [buf EXCEPT !.tables = @ \o f.tables]

(* Nothing is changed unless every table of the request is acceptable; the *)
(* tables it does not list are disabled.                                   *)
TooBig(list) == \E n \in DOMAIN list : list[n].big
Listed(list) == {list[n].id : n \in DOMAIN list}

KeepsUnlisted(list, by) ==
    [t \in TableIds |->
        IF t \in Listed(list) THEN [disabled |-> FALSE, by |-> by]
        ELSE tables[t]]
Configured(list, by) ==
    [t \in TableIds |->
        IF t \in Listed(list) THEN [disabled |-> FALSE, by |-> by]
        ELSE [tables[t] EXCEPT !.disabled = TRUE]]

(* The segments of the reply: up to SEGMENT enabled tables each, the last  *)
(* one without the MORE flag.  The scan stops behind the last table taken, *)
(* so that an empty segment may follow a full one.                         *)
Enabled(now, from) == {t \in from..(PIPELINE_TABLES - 1) : ~now[t].disabled}
Lowest(s, n) == {t \in s : Cardinality({u \in s : u < t}) < n}
NextTable(now, from) ==
    LET taken == Lowest(Enabled(now, from), SEGMENT)
    IN IF Cardinality(taken) < SEGMENT THEN PIPELINE_TABLES
       ELSE 1 + (CHOOSE t \in taken : \A u \in taken : u <= t)

RECURSIVE StopsWhenFull(_, _)
StopsWhenFull(now, from) ==
    LET taken == Lowest(Enabled(now, from), SEGMENT)
        next == NextTable(now, from)
    IN <<[tables |-> taken, more |-> Cardinality(taken) = SEGMENT]>> \o
       IF Cardinality(taken) < SEGMENT \/ next = PIPELINE_TABLES
       THEN <<>> ELSE StopsWhenFull(now, next)
RECURSIVE Segments(_, _)
Segments(now, from) ==
    LET taken == Lowest(Enabled(now, from), SEGMENT)
        next == NextTable(now, from)
    IN <<[tables |-> taken, more |-> next # PIPELINE_TABLES]>> \o
       IF next < PIPELINE_TABLES THEN Segments(now, next) ELSE <<>>

Error(code) == [error |-> code, segments |-> <<>>]
Reply(now) == [error |-> "none", segments |-> Segments(now, 0)]
Silence == [error |-> "none", segments |-> <<>>]

(***************************************************************************)
(* The handler                                                             *)
(***************************************************************************)
TfInit ==
    /\ tables = [t \in TableIds |-> flow_table_create]
    /\ mp_req = [r \in Remotes |-> remote_create]
    /\ answer = Silence
    /\ gone = FALSE
    /\ history = [n |-> 0, of |-> [r \in Remotes |-> <<>>]]

Unchanged == tables' = tables /\ gone' = gone

(* Ids are checked before anything else, fragment or not.                  *)
BadTable(r, f) ==
    /\ \E n \in DOMAIN f.tables : f.tables[n].id >= PIPELINE_TABLES
    /\ answer' = Error("BAD_TABLE")
    /\ Unchanged
    /\ UNCHANGED mp_req

Valid(f) == \A n \in DOMAIN f.tables : f.tables[n].id < PIPELINE_TABLES

WrongXid(r, f) ==
    /\ Valid(f)
    /\ mp_req[r].held /\ mp_req[r].xid # f.xid
    /\ answer' = Error("MULTIPART_BUFFER_OVERFLOW")
    /\ Unchanged
    /\ UNCHANGED mp_req

AnyXid(r, f) ==
    /\ Valid(f)
    /\ f.more
    /\ mp_req' = [mp_req EXCEPT ![r] =
            [ofl_msg_merge_multipart_request_table_features(@, f) EXCEPT
                !.held = TRUE, !.xid = f.xid]]
    /\ answer' = Silence
    /\ Unchanged
Fragment(r, f) ==
    /\ Valid(f)
    /\ mp_req[r].held => mp_req[r].xid = f.xid
    /\ f.more
    /\ mp_req' = [mp_req EXCEPT ![r] =
            [ofl_msg_merge_multipart_request_table_features(@, f) EXCEPT
                !.held = TRUE, !.xid = f.xid]]
    /\ answer' = Silence
    /\ Unchanged

(* The last fragment, or a request in one piece.  After an error the       *)
(* caller frees the message, whose parts a merged request shares with the  *)
(* buffer that was freed before: the process may not survive it.           *)
Request(r, f) ==
    LET list == ofl_msg_merge_multipart_request_table_features(mp_req[r], f)
                    .tables
    IN /\ Valid(f)
       /\ mp_req[r].held => mp_req[r].xid = f.xid
       /\ ~f.more
       /\ mp_req' = [mp_req EXCEPT ![r] = NoBuffer]
       /\ IF TooBig(list)
          THEN /\ answer' = Error("BAD_ARGUMENT")
               /\ tables' = tables
               /\ gone' \in {FALSE, mp_req[r].held /\ f.tables # <<>>}
          ELSE /\ tables' = IF list = <<>> THEN tables
                            ELSE Configured(list, [remote |-> r, xid |-> f.xid])
               /\ answer' = Reply(tables')
               /\ gone' = gone

(* The fragments accepted for the request that is being put together.      *)
Remember(r, f) ==
    history' = [n |-> history.n + 1,
                of |-> [history.of EXCEPT ![r] =
                    IF ~mp_req'[r].held THEN <<>>
                    ELSE IF mp_req' = mp_req THEN @ ELSE Append(@, f.xid)]]

pipeline_handle_stats_request_table_features_request(r, f) ==
    /\ ~gone
    /\ history.n < MaxFragments
    /\ BadTable(r, f) \/ WrongXid(r, f) \/ Fragment(r, f) \/ Request(r, f)
    /\ Remember(r, f)

(* The remote's connection is closed, and another takes its place.         *)
remote_destroy(r) ==
    /\ ~gone
    /\ mp_req[r].held
    /\ mp_req' = [mp_req EXCEPT ![r] = remote_create]
    /\ history' = [history EXCEPT !.of[r] = <<>>]
    /\ UNCHANGED <<tables, answer, gone>>

TfNext ==
    \/ \E r \in Remotes, xid \in Xids, more \in BOOLEAN, body \in Bodies :
        pipeline_handle_stats_request_table_features_request(r,
            [xid |-> xid, more |-> more, tables |-> body])
    \/ \E r \in Remotes : remote_destroy(r)

-----------------------------------------------------------------------------
(* The tables in use were all set up by one request of one controller (or  *)
(* by flow_table_create()): fragments that two controllers send at the     *)
(* same time, or one controller under two transaction identifiers, are     *)
(* never put together into one configuration.                              *)
OneRequestInForce ==
    /\ \A t, u \in TableIds :
        ~tables[t].disabled /\ ~tables[u].disabled
            => tables[t].by = tables[u].by
    /\ \A r \in Remotes : \A n \in DOMAIN history.of[r] :
        history.of[r][n] = mp_req[r].xid

(* The reply lists every table in use once, in ascending order, and the    *)
(* receiver can tell where it ends: every segment but the last one says    *)
(* that more will follow.                                                  *)
ReplyComplete ==
    LET s == answer.segments
    IN s # <<>> =>
        /\ UNION {s[n].tables : n \in DOMAIN s} = Enabled(tables, 0)
        /\ \A n \in DOMAIN s : s[n].more <=> n < Len(s)
        /\ \A m, n \in DOMAIN s : m < n =>
            \A t \in s[m].tables, u \in s[n].tables : t < u

=============================================================================
