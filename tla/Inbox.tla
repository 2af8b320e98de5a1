--------------------------------- MODULE Inbox ---------------------------------
(* The unified inbox: conversations and their messages in the database         *)
(* (conversations.controller.ts), and the page of one member who reads and     *)
(* answers them (inbox/chat/page.tsx). Messages are written and conversations  *)
(* marked read in transactions of two statements, under READ COMMITTED, which  *)
(* wait for one another on the row of the conversation. A conversation that is *)
(* opened is loaded and marked read at once, by two requests whose answers may *)
(* come after another one was opened; the page follows no events.              *)
EXTENDS Naturals, Sequences, FiniteSets

CONSTANTS
  Chats,
  Calls,        \* bound: requests under way, numbered
  ThreadPage,   \* messages of a page
  MaxMessages,  \* bound: messages
  NoChat        \* no conversation, no request

ASSUME InboxAssumption ==
  /\ Calls \subseteq Nat
  /\ NoChat \notin Chats \cup Calls
  /\ ThreadPage \in Nat \ {0}
  /\ MaxMessages \in Nat

VARIABLES
  chat,      \* the conversation of each message, in the order they were written
  inbound,   \* the messages recorded for a channel
  stored,    \* the messages whose transaction has committed
  read,      \* the messages with a readAt
  unread,    \* unreadCount of a conversation
  locked,    \* the request that has written the row of a conversation and not committed
  call,      \* the requests under way
  active,    \* the conversation that is open in the page
  thread,    \* the messages it shows
  older,     \* the cursor of "Load older", 0 for none
  astray     \* history: a message was sent, or older ones asked for, across an opening or
             \* a loading of the thread

messageVars == <<chat, inbound, stored, read, unread, locked>>
threadVars == <<active, thread, older, astray>>
inboxVars == <<messageVars, call, threadVars>>

Messages == DOMAIN chat

\* Seeded fault: markRead marks the messages before it zeroes the count.
StatementsSwapped(kind) ==
  CASE kind \in {"record", "send"} -> <<"insert", "update">>
    [] kind = "read" -> <<"mark", "zero">>
    [] kind \in {"load", "older"} -> <<"fetch">>
    [] OTHER -> <<>>

\* The statements of a request.
Statements(kind) ==
  CASE kind \in {"record", "send"} -> <<"insert", "update">>
    [] kind = "read" -> <<"zero", "mark">>
    [] kind \in {"load", "older"} -> <<"fetch">>
    [] OTHER -> <<>>

\* A request: the statement it is at; the message it has written, those it has marked or
\* found, or the one it starts from; whether there are more; whether the page waits for it.
Asked(kind, c, found) ==
  [kind |-> kind, chat |-> c, at |-> 1, found |-> found, more |-> FALSE, awaited |-> kind = "load"]

Idle == Asked("none", NoChat, {})

ChatCall ==
  [kind : {"none", "record", "send", "read", "load", "older"}, chat : Chats \cup {NoChat},
   at : 1..3, found : SUBSET Nat, more : BOOLEAN, awaited : BOOLEAN]

InboxTypeOK ==
  /\ chat \in Seq(Chats) /\ Len(chat) <= MaxMessages
  /\ inbound \subseteq Messages /\ stored \subseteq Messages /\ read \subseteq stored \cap inbound
  /\ unread \in [Chats -> Nat]
  /\ locked \in [Chats -> Calls \cup {NoChat}]
  /\ call \in [Calls -> ChatCall]
  /\ \A r \in Calls : call[r].found \subseteq Messages
  /\ active \in Chats \cup {NoChat}
  /\ thread \in Seq(Messages)
  /\ older \in Messages \cup {0}
  /\ astray \in BOOLEAN

InboxInit ==
  /\ chat = <<>> /\ inbound = {} /\ stored = {} /\ read = {}
  /\ unread = [c \in Chats |-> 0]
  /\ locked = [c \in Chats |-> NoChat]
  /\ call = [r \in Calls |-> Idle]
  /\ active = NoChat /\ thread = <<>> /\ older = 0 /\ astray = FALSE

Under(kinds) == {r \in Calls : call[r].kind \in kinds}

\* Requests are numbered with the numbers that are free, the smallest first.
Spare == Under({"none"})
Numbered(r) == r \in Spare /\ \A q \in Spare : r <= q

-----------------------------------------------------------------------------
(* The API *)

\* A request is at a statement; it goes on to the next.
At(r, statement) ==
  /\ call[r].at <= Len(Statements(call[r].kind))
  /\ Statements(call[r].kind)[call[r].at] = statement

Onward(asked) == [asked EXCEPT !.at = @ + 1]
Paged(asked, page, more) == [asked EXCEPT !.found = page, !.more = more]
Goes(r, c) == call' = [call EXCEPT ![r] = c]

\* sendMessage: the message is there, and nobody sees it yet ...
Insert(r, asked) ==
  /\ Len(chat) < MaxMessages
  /\ chat' = Append(chat, asked.chat)
  /\ inbound' = IF asked.kind = "record" THEN inbound \cup {Len(chat) + 1} ELSE inbound
  /\ Goes(r, [Onward(asked) EXCEPT !.found = {Len(chat) + 1}])
  /\ UNCHANGED <<stored, read, unread, locked, threadVars>>

\* ... one a channel has received, or one that the page sends.
Record(r, c) == Numbered(r) /\ Insert(r, Asked("record", c, {}))
Write(r) == At(r, "insert") /\ Insert(r, call[r])

\* ... and its conversation is updated, as it is by markRead: the statement waits for a
\* transaction that has updated it.
Touch(r) ==
  /\ At(r, "update") \/ At(r, "zero")
  /\ locked[call[r].chat] = NoChat
  /\ locked' = [locked EXCEPT ![call[r].chat] = r]
  /\ Goes(r, Onward(call[r]))
  /\ UNCHANGED <<chat, inbound, stored, read, unread, threadVars>>

Unread(c) == {m \in (stored \cap inbound) \ read : chat[m] = c}

\* markRead marks what has been committed by then.
MarkRead(r) ==
  /\ At(r, "mark")
  /\ Goes(r, [Onward(call[r]) EXCEPT !.found = Unread(call[r].chat)])
  /\ UNCHANGED <<messageVars, threadVars>>

\* The count after a transaction.
Counted(r) ==
  CASE call[r].kind = "record" -> unread[call[r].chat] + 1
    [] call[r].kind = "read" -> 0
    [] OTHER -> unread[call[r].chat]

Commit(r) ==
  /\ \E c \in Chats : locked[c] = r
  /\ call[r].at > Len(Statements(call[r].kind))
  /\ unread' = [unread EXCEPT ![call[r].chat] = Counted(r)]
  /\ IF call[r].kind = "read"
       THEN read' = read \cup call[r].found /\ UNCHANGED stored
       ELSE stored' = stored \cup call[r].found /\ UNCHANGED read
  /\ locked' = [locked EXCEPT ![call[r].chat] = NoChat]
  /\ Goes(r, IF call[r].kind = "send" THEN call[r] ELSE Idle)
  /\ UNCHANGED <<chat, inbound, threadVars>>

\* messages(): the newest, or the newest before the cursor.
Fetch(r) ==
  /\ At(r, "fetch")
  /\ LET before == {m \in stored : /\ chat[m] = call[r].chat
                                   /\ \A n \in call[r].found : m < n}
         page == {m \in before : Cardinality({n \in before : n > m}) < ThreadPage}
     IN  Goes(r, Paged(Onward(call[r]), page, before # page))
  /\ UNCHANGED <<messageVars, threadVars>>

-----------------------------------------------------------------------------
(* The page *)

\* A conversation is opened. Nothing that loads the one before is waited for.
OpenChat(c, r, s) ==
  /\ c # active
  /\ Numbered(r)
  /\ s \in Spare \ {r} /\ \A q \in Spare \ {r} : s <= q
  /\ active' = c
  /\ thread' = <<>>
  /\ older' = 0
  /\ call' = [q \in Calls |->
       CASE q = r -> Asked("load", c, {})
         [] q = s -> Asked("read", c, {})
         [] q \in Under({"load"}) -> [call[q] EXCEPT !.awaited = FALSE]
         [] OTHER -> call[q]]
  /\ astray' = (Under({"send", "older"}) # {})
  /\ UNCHANGED messageVars

\* Whether the thread is being loaded.
Loading == \E r \in Under({"load"}) : call[r].awaited

Send(r) ==
  /\ active # NoChat
  /\ Under({"send"}) = {}
  /\ Numbered(r)
  /\ Goes(r, Asked("send", active, {}))
  /\ astray' = (astray \/ Loading)
  /\ UNCHANGED <<messageVars, active, thread, older>>

LoadOlder(r) ==
  /\ older # 0
  /\ Under({"older"}) = {}
  /\ Numbered(r)
  /\ Goes(r, Asked("older", active, {older}))
  /\ UNCHANGED <<messageVars, threadVars>>

\* The messages of S, each after those that are older.
Sorted(S) ==
  [i \in 1..Cardinality(S) |-> CHOOSE m \in S : Cardinality({n \in S : n < m}) = i - 1]

Cursor(r) == IF call[r].more THEN Sorted(call[r].found)[1] ELSE 0

Answered(r, kind) ==
  /\ call[r].kind = kind
  /\ call[r].at > Len(Statements(kind))
  /\ Goes(r, Idle)
  /\ UNCHANGED <<messageVars, active, astray>>

Loaded(r) ==
  /\ Answered(r, "load")
  /\ IF call[r].awaited THEN thread' = Sorted(call[r].found) /\ older' = Cursor(r)
     ELSE UNCHANGED <<thread, older>>

\* What was sent, and older messages, join the thread, whichever is open.
Sent(r) ==
  /\ Answered(r, "send")
  /\ call[r].found \subseteq stored
  /\ thread' = thread \o Sorted(call[r].found)
  /\ UNCHANGED older

LoadedOlder(r) ==
  /\ Answered(r, "older")
  /\ thread' = Sorted(call[r].found) \o thread
  /\ older' = Cursor(r)

\* A request fails, or its answer is lost: its transaction is rolled back unless it has
\* committed.
LoseCall(r) ==
  /\ r \notin Spare
  /\ locked' = [c \in Chats |-> IF locked[c] = r THEN NoChat ELSE locked[c]]
  /\ Goes(r, Idle)
  /\ UNCHANGED <<chat, inbound, stored, read, unread, threadVars>>

Serve(r) == Write(r) \/ Touch(r) \/ MarkRead(r) \/ Commit(r) \/ Fetch(r)

InboxNext ==
  \E r \in Calls :
    \/ Serve(r) \/ Send(r) \/ LoadOlder(r) \/ Loaded(r) \/ Sent(r) \/ LoadedOlder(r) \/ LoseCall(r)
    \/ \E c \in Chats : Record(r, c) \/ \E s \in Calls : OpenChat(c, r, s)

InboxSpec == InboxInit /\ [][InboxNext]_inboxVars

-----------------------------------------------------------------------------

\* The badge of a conversation is the number of its messages nobody has read, however its
\* messages arrive while it is marked read (conversations.controller.ts:186-192).
UnreadIsCounted == \A c \in Chats : unread[c] = Cardinality(Unread(c))

\* The thread shows messages of the conversation that is open, oldest first and none twice
\* (page.tsx:110-117), unless a message was sent, or older ones asked for, across an
\* opening or a loading: an answer to those is shown wherever it arrives.
ThreadSound ==
  ~ astray =>
    /\ \A i \in DOMAIN thread : chat[thread[i]] = active
    /\ \A i, j \in DOMAIN thread : i < j => thread[i] < thread[j]

InboxSound == UnreadIsCounted /\ ThreadSound
=============================================================================
