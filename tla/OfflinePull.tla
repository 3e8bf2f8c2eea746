---------------------------- MODULE OfflinePull ----------------------------
(***************************************************************************)
(* How a user gets the messages that were not pushed: the history of a     *)
(* conversation, page by page; the pull by cursor (V2); and the pull over  *)
(* WebSocket, whose cursor the server keeps, in memory, one per user.      *)
(* Messages are stored meanwhile, in an order of their own: a message gets *)
(* its server_ts when it is accepted and its id when it is stored.  The    *)
(* readers only share the table, so a behaviour has one kind of them.      *)
(* Conversations are read by GetUserConversations, most recently active    *)
(* first; the model takes any order.                                       *)
(***************************************************************************)
EXTENDS Naturals, Sequences, FiniteSets

CONSTANTS
    Convs,     \* the user's conversations (at most 100 are read)
    Conns,     \* the user's authenticated connections to one instance
    Limit,     \* the limit of a request
    Readers,   \* kinds of readers: subset of {"history", "v2", "ws"}
    MaxTS,     \* for each kind, the bound of server_ts
    MaxRows    \* for each kind, the bound of the messages stored

ASSUME PullAssumption ==
    /\ Limit \in Nat \ {0}
    /\ MaxTS \in [Readers -> Nat] /\ MaxRows \in [Readers -> Nat]
    /\ Readers \subseteq {"history", "v2", "ws"}

VARIABLES
    rows,      \* the messages of the user's conversations; the id is the place
    kind,      \* which kind of reader this behaviour has
    \* a client that reads page by page
    over,      \* the conversations it asks for
    pos,       \* its cursor: a message, 0 at first
    seen,      \* what it was given
    had,       \* how many messages were stored when it began
    newest,    \* the newest of them, 0 if there was none
    pager,     \* "new", "paging" or "done"
    \* pulls over WebSocket
    cursor,    \* LastMsgTS of the user's cursor, 0 if there is none
    pull,      \* where a connection's pull stands: "idle", "read", "sent"
    from,      \* lastTS of the pull
    todo,      \* conversations it still has to read
    batch,     \* messages it found
    final,     \* the last message of the list, 0 if it is empty
    sent       \* messages put into the channel of a connection

pagerVars == <<over, pos, seen, had, newest, pager>>
wsVars    == <<cursor, pull, from, todo, batch, final, sent>>
vars      == <<rows, kind, pagerVars, wsVars>>

Ids     == 1..Len(rows)
In(C)   == {m \in Ids : rows[m].conv \in C}
TS(m)   == rows[m].ts

Init ==
    /\ rows = <<>> /\ kind \in Readers
    /\ over = {} /\ pos = 0 /\ seen = {} /\ had = 0 /\ newest = 0
    /\ pager = "new"
    /\ cursor = 0
    /\ pull = [c \in Conns |-> "idle"] /\ from = [c \in Conns |-> 0]
    /\ todo = [c \in Conns |-> {}] /\ batch = [c \in Conns |-> {}]
    /\ final = [c \in Conns |-> 0]
    /\ sent = {}

(* CreateMessage, by a consumer or the direct path.                        *)
CreateMessage(conv, t) ==
    /\ Len(rows) < MaxRows[kind]
    /\ rows' = Append(rows, [conv |-> conv, ts |-> t])
    /\ UNCHANGED <<kind, pagerVars, wsVars>>

-----------------------------------------------------------------------------
(* Queries: ORDER BY server_ts, id, and LIMIT.                             *)

Before(m, n) == TS(m) < TS(n) \/ (TS(m) = TS(n) /\ m < n)

First(k, S) == {m \in S : Cardinality({n \in S : Before(n, m)}) < k}
Newest(k, S) == {m \in S : Cardinality({n \in S : Before(m, n)}) < k}
LastOf(S)   == CHOOSE m \in S : \A n \in S : n = m \/ Before(n, m)

(* Mutant: OFFSET-like paging by the time alone.                           *)
GetMessagesByConversationByTime(C, before, limit) ==
    Newest(limit + 1, {m \in In(C) : before > 0 => TS(m) < TS(before)})

(* GetMessagesByConversation: one more than asked for, newest first.       *)
GetMessagesByConversation(C, before, limit) ==
    Newest(limit + 1, {m \in In(C) : before > 0 => Before(m, before)})

(* Mutant: the time of the cursor without its id.                          *)
GetMessagesByCursorInclusive(C, after, limit) ==
    First(limit, {m \in In(C) : after > 0 => TS(m) >= TS(after)})

(* Mutant: a message of the cursor's time is taken for an old one.         *)
GetMessagesByCursorByTime(C, after, limit) ==
    First(limit, {m \in In(C) : after > 0 => TS(m) > TS(after)})

(* GetMessagesByCursor, and GetMessagesWithCursor for all conversations:   *)
(* not one more than asked for.  A cursor stands for a message.            *)
GetMessagesByCursor(C, after, limit) ==
    First(limit, {m \in In(C) : after > 0 => Before(after, m)})

(* Mutant: the newest messages are taken first.                            *)
GetMessagesAfterNewest(conv, ts, limit) ==
    Newest(limit, {m \in In({conv}) : TS(m) > ts})

(* GetMessagesAfter.                                                       *)
GetMessagesAfter(conv, ts, limit) ==
    First(limit, {m \in In({conv}) : TS(m) > ts})

-----------------------------------------------------------------------------
(* Clients that read page by page.                                         *)

Begin(C) ==
    /\ pager = "new"
    /\ pager' = "paging" /\ over' = C
    /\ had' = Len(rows)
    /\ newest' = IF In(C) = {} THEN 0 ELSE LastOf(In(C))
    /\ UNCHANGED <<rows, kind, pos, seen, wsVars>>

BeginHistory(conv) == kind = "history" /\ Begin({conv})

BeginPull(C) == kind = "v2" /\ Begin(C)

(* GetHistory looks up the cursor's message first, and reads from the new  *)
(* end when that fails.  It puts the messages in order of time and cuts to *)
(* the limit, at the new end.  Its next_cursor is a time, which no request *)
(* understands; the client does what the parameter's description says and  *)
(* sends the id of the last message of the page, while has_more is set.    *)
GetHistory == \E before \in {pos, 0} :
    LET found   == GetMessagesByConversation(over, before, Limit)
        hasMore == Cardinality(found) > Limit
        page    == IF hasMore THEN First(Limit, found) ELSE found
    IN  /\ pager = "paging" /\ kind = "history"
        /\ seen' = seen \cup page
        /\ pos' = IF hasMore THEN LastOf(page) ELSE pos
        /\ pager' = IF hasMore THEN "paging" ELSE "done"
        /\ UNCHANGED <<rows, kind, over, had, newest, wsVars>>

(* PullOfflineMessagesV2, of one conversation or all.  It never sets       *)
(* has_more nor next_cursor; the client makes the cursor of the last       *)
(* message itself, until a page is not full.                               *)
PullOfflineMessagesV2 ==
    LET page == GetMessagesByCursor(over, pos, Limit)
    IN  /\ pager = "paging" /\ kind = "v2"
        /\ seen' = seen \cup page
        /\ pos' = IF page # {} THEN LastOf(page) ELSE pos
        /\ pager' = IF Cardinality(page) = Limit THEN "paging" ELSE "done"
        /\ UNCHANGED <<rows, kind, over, had, newest, wsVars>>

-----------------------------------------------------------------------------
(* Pulls over WebSocket.                                                   *)

SentTimes == {0} \cup {TS(m) : m \in sent}

StartPull(c, ts) ==
    /\ kind = "ws" /\ pull[c] = "idle"
    /\ pull' = [pull EXCEPT ![c] = "read"]
    /\ from' = [from EXCEPT ![c] = ts]
    /\ todo' = [todo EXCEPT ![c] = Convs]
    /\ UNCHANGED <<rows, kind, pagerVars, cursor, batch, final, sent>>

(* The request is over, and its variables with it.                         *)
EndPull(c) ==
    /\ pull' = [pull EXCEPT ![c] = "idle"] /\ from' = [from EXCEPT ![c] = 0]
    /\ batch' = [batch EXCEPT ![c] = {}] /\ final' = [final EXCEPT ![c] = 0]
    /\ todo' = [todo EXCEPT ![c] = {}]

(* After an authentication the pull starts from the server's cursor.       *)
SendOfflineMessages(c) == StartPull(c, cursor)

(* A pull_offline frame brings the time to start from: none, or that of a  *)
(* message the client was sent.                                            *)
HandlePullOffline(c) == \E ts \in SentTimes : StartPull(c, ts)

(* PullOfflineMessages reads one conversation after the other, and goes on *)
(* when a read fails; the lists are put together in that order.            *)
PullConversation(c) ==
    /\ pull[c] = "read"
    /\ \E conv \in todo[c] :
          /\ todo' = [todo EXCEPT ![c] = @ \ {conv}]
          /\ \E page \in {{}, GetMessagesAfter(conv, from[c], Limit)} :
                /\ batch' = [batch EXCEPT ![c] = @ \cup page]
                /\ final' = [final EXCEPT ![c] = IF page = {} THEN @ ELSE LastOf(page)]
    /\ UNCHANGED <<rows, kind, pagerVars, cursor, pull, from, sent>>

(* The frame with the messages is put into the channel; an empty list ends *)
(* the pull.                                                               *)
SendBatch(c) ==
    /\ pull[c] = "read" /\ todo[c] = {}
    /\ sent' = sent \cup batch[c]
    /\ IF batch[c] = {} THEN EndPull(c)
       ELSE /\ pull' = [pull EXCEPT ![c] = "sent"]
            /\ UNCHANGED <<from, todo, batch, final>>
    /\ UNCHANGED <<rows, kind, pagerVars, cursor>>

(* Mutant: the cursor is moved by the time instead of to it.               *)
UpdateCursorAdding(c) ==
    /\ pull[c] = "sent"
    /\ cursor' = cursor + TS(final[c])
    /\ EndPull(c)
    /\ UNCHANGED <<rows, kind, pagerVars, sent>>

(* The cursor is set to the last message of the list, forwards or back.    *)
UpdateCursor(c) ==
    /\ pull[c] = "sent"
    /\ cursor' = TS(final[c])
    /\ EndPull(c)
    /\ UNCHANGED <<rows, kind, pagerVars, sent>>

(* The connection or the request ends before the answer.                   *)
PullFails(c) ==
    /\ pull[c] # "idle"
    /\ EndPull(c)
    /\ UNCHANGED <<rows, kind, pagerVars, cursor, sent>>

(* A sync_cursor frame sets the cursor to a message the client was sent.   *)
HandleSyncCursor ==
    /\ kind = "ws"
    /\ cursor' \in SentTimes
    /\ UNCHANGED <<rows, kind, pagerVars, pull, from, todo, batch, final, sent>>

(* The process restarts with no cursors.                                   *)
Restart ==
    /\ kind = "ws"
    /\ cursor' = 0
    /\ pull' = [c \in Conns |-> "idle"] /\ from' = [c \in Conns |-> 0]
    /\ todo' = [c \in Conns |-> {}] /\ batch' = [c \in Conns |-> {}]
    /\ final' = [c \in Conns |-> 0]
    /\ UNCHANGED <<rows, kind, pagerVars, sent>>

-----------------------------------------------------------------------------
Next ==
    \/ \E conv \in Convs, t \in 1..MaxTS[kind] : CreateMessage(conv, t)
    \/ \E conv \in Convs : BeginHistory(conv) \/ BeginPull({conv})
    \/ BeginPull(Convs)
    \/ GetHistory \/ PullOfflineMessagesV2
    \/ \E c \in Conns : \/ SendOfflineMessages(c) \/ HandlePullOffline(c)
                        \/ PullConversation(c) \/ SendBatch(c)
                        \/ UpdateCursor(c) \/ PullFails(c)
    \/ HandleSyncCursor \/ Restart

Spec == Init /\ [][Next]_vars

-----------------------------------------------------------------------------
(* Every variable stays in its type.                                       *)
TypeOK ==
    /\ rows \in Seq([conv : Convs, ts : 1..MaxTS[kind]]) /\ kind \in Readers
    /\ over \subseteq Convs /\ pos \in Ids \cup {0} /\ seen \subseteq Ids
    /\ had \in 0..Len(rows) /\ newest \in Ids \cup {0}
    /\ pager \in {"new", "paging", "done"}
    /\ cursor \in 0..MaxTS[kind] /\ sent \subseteq Ids
    /\ pull \in [Conns -> {"idle", "read", "sent"}]
    /\ from \in [Conns -> 0..MaxTS[kind]]
    /\ todo \in [Conns -> SUBSET Convs] /\ batch \in [Conns -> SUBSET Ids]
    /\ final \in [Conns -> Ids \cup {0}]

(* A client that follows the history by the last message of each page, two *)
(* or more at a time, to the page without has_more, has been given every   *)
(* message that was stored when it began - but the newest one, which       *)
(* GetHistory cuts off - whatever is stored meanwhile, at whatever time,   *)
(* and however often the look-up of the cursor's message fails.            *)
HistoryComplete ==
    kind = "history" /\ pager = "done" /\ Limit >= 2 =>
        (In(over) \cap 1..had) \ seen \subseteq {newest}

(* A client that pulls by cursor until a page is not full has been given   *)
(* every message that was stored when it began, also several of one time,  *)
(* although messages are stored before and after its cursor meanwhile.     *)
PullComplete ==
    kind = "v2" /\ pager = "done" => In(over) \cap 1..had \subseteq seen

(* The pull by cursor gives a message once.                                *)
PullOnce ==
    [][PullOfflineMessagesV2 =>
        GetMessagesByCursor(over, pos, Limit) \cap seen = {}]_vars

(* What may stand in front of m: it was sent although m was not, and m was *)
(* stored after it, is of the same time, or of another conversation.       *)
PassedOver(m) ==
    \E r \in sent : /\ TS(m) <= TS(r)
                    /\ r < m \/ TS(r) = TS(m) \/ rows[r].conv # rows[m].conv

(* The server's cursor passes over no message of a conversation that was   *)
(* stored in order of time: what it leaves behind unsent is behind a       *)
(* message of another conversation, of the same time, or stored earlier -  *)
(* through failed reads, full pages, concurrent connections of the user,   *)
(* cursors that clients set and restarts.                                  *)
CursorSkipsExplained ==
    \A m \in Ids : TS(m) <= cursor => m \in sent \/ PassedOver(m)

=============================================================================
