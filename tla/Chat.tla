-------------------------------- MODULE Chat --------------------------------
(***************************************************************************)
(* A conversation with the assistant, at both ends: the chat store of the  *)
(* page and the request that answers a message on the server.  The page    *)
(* shows the messages of one chat, receives an answer as a stream of       *)
(* events and learns from them which rows the server stored; an edit names *)
(* such a row and the server cuts the history from it.                     *)
(* Texts, models and the progress of a workflow are left out.  A message   *)
(* is its role, its chat, the id of its row as far as the page knows it (0 *)
(* for a message with only a number of the page's own, which no row has)   *)
(* and whether it is a card waiting for the parameters of a workflow.      *)
(* The page has one thread: an action of it is what runs between two       *)
(* awaits.  A statement on the rows is a step of the server.               *)
(***************************************************************************)
EXTENDS Integers, Sequences, FiniteSets, SequencesExt

CONSTANTS
    FirstChats,   \* the chats stored at first are 1 .. FirstChats
    Asked,        \* and the questions answered in them: the chat of each, in order
    MaxChats,     \* bound on chats
    PageSize,     \* rows in a page of history (50)
    MaxStreams,   \* bound on answers asked for
    MaxLoads,     \* bound on pages asked for
    MaxClicks     \* bound on what the user asks for

ASSUME ChatConstants ==
    /\ FirstChats \in Nat /\ Asked \in Seq(1 .. FirstChats)
    /\ PageSize \in Nat \ {0} /\ MaxStreams \in Nat /\ MaxLoads \in Nat

NoChat == 0
NoStream == 0
Streams == 1 .. MaxStreams
Loads == 1 .. MaxLoads

VARIABLES
    chats,         \* stored: the chats that exist,
    lastChat,      \* the last number given to one,
    rows,          \* their messages, a set of [id, chat, role],
    lastId,        \* and the last id given to a message
    current,       \* the page: currentSessionId,
    messages,      \* the messages shown,
    isStreaming,
    controller,    \* the stream that activeAbortController belongs to,
    seq,           \* sessionSwitchSeq,
    page,          \* loadedMessagePage,
    total,         \* messageTotal
    loadingMore,   \* and loadingMoreMessages
    stream,        \* the answers as the page receives them
    job,           \* and as the server works on them
    load,          \* pages of history asked for
    deleting,      \* chats asked to be deleted
    clicks,        \* what the user has asked for so far
    awaiting,      \* another chat was selected and its history has not come
    parted         \* something happened that parts the page from the rows

stored == <<chats, lastChat, rows, lastId>>
paging == <<seq, page, total, loadingMore>>
shown == <<current, messages, isStreaming, controller>>
chatVars == <<stored, shown, paging, stream, job, load, deleting, clicks, awaiting, parted>>

NoAnswer == [phase |-> "unused", kind |-> "send", chat |-> NoChat, from |-> 0,
             of |-> NoChat, wire |-> <<>>]
\* An answer both ends are done with.
Settled(s, j) ==
    [k \in Streams |-> IF s[k].phase = "over" /\ j[k] = "over"
                       THEN [NoAnswer EXCEPT !.phase = "over"] ELSE s[k]]
NoLoad == [phase |-> "unused", what |-> "select", chat |-> NoChat, page |-> 1, seq |-> 0,
           list |-> <<>>, total |-> 0]

ChatInit ==
    /\ chats = 1 .. FirstChats /\ lastChat = FirstChats
    /\ rows = {[id |-> n, chat |-> Asked[(n + 1) \div 2],
                role |-> IF n % 2 = 1 THEN "user" ELSE "assistant"] : n \in 1 .. 2 * Len(Asked)}
    /\ lastId = 2 * Len(Asked)
    /\ current = NoChat /\ messages = <<>> /\ isStreaming = FALSE /\ controller = NoStream
    /\ seq = 0 /\ page = 1 /\ total = 0 /\ loadingMore = FALSE
    /\ stream = [k \in Streams |-> NoAnswer] /\ job = [k \in Streams |-> "unused"]
    /\ load = [l \in Loads |-> NoLoad]
    /\ deleting = {} /\ clicks = 0 /\ awaiting = FALSE /\ parted = FALSE

-----------------------------------------------------------------------------
(* The server. *)

\* The rows of a chat, and a page of them: mf_ai_message_list counts the pages
\* from the oldest row.  created_at has whole seconds; rows of one second are
\* taken in the order of their ids, as the tables give them.
History(c) == {r \in rows : r.chat = c}
ListPage(c, n) ==
    {r \in History(c) : Cardinality({q \in History(c) : q.id < r.id})
                          \in (n - 1) * PageSize .. n * PageSize - 1}
OldestFirst(list, set) ==
    /\ {list[i] : i \in DOMAIN list} = set
    /\ \A i, j \in DOMAIN list : i < j => list[i].id < list[j].id

\* mf_ai_message_delete_last_assistant: the answers after the last question.
DeleteLastAnswer(c) ==
    rows' = {r \in rows : ~ (/\ r.chat = c /\ r.role = "assistant"
                             /\ \A q \in History(c) : q.role = "user" => r.id > q.id)}

\* As if the question asked again were kept.
DeleteFrom_after(c, id) == rows' = {r \in rows : ~ (r.chat = c /\ r.id > id)}
\* mf_ai_messages_delete_from
DeleteFrom(c, id) == rows' = {r \in rows : ~ (r.chat = c /\ r.id >= id)}

\* mf_ai_message_insert, refused when the chat is gone.
Insert(k, role) ==
    /\ stream[k].chat \in chats
    /\ rows' = rows \cup {[id |-> lastId + 1, chat |-> stream[k].chat, role |-> role]}
    /\ lastId' = lastId + 1

\* The page is told the id as long as it listens.
Told(k, role) ==
    [stream EXCEPT ![k].wire = IF stream[k].phase = "open"
                               THEN Append(@, [role |-> role, id |-> lastId + 1]) ELSE @]

\* ai_chat_handler, ai_workflow_execute_stream: no such chat.
RefuseChat(k) ==
    /\ job[k] = "cut" /\ stream[k].chat \notin chats
    /\ job' = [job EXCEPT ![k] = "over"] /\ stream' = Settled(stream, job')
    /\ UNCHANGED <<stored, shown, paging, load, deleting, clicks, awaiting, parted>>

\* The history is cut before it is read for the model.
Cut(k) ==
    /\ job[k] = "cut" /\ stream[k].chat \in chats
    /\ \/ stream[k].kind = "regenerate" /\ DeleteLastAnswer(stream[k].chat)
       \/ stream[k].from > 0 /\ DeleteFrom(stream[k].chat, stream[k].from)
       \/ stream[k].kind # "regenerate" /\ stream[k].from = 0 /\ UNCHANGED rows
    /\ job' = [job EXCEPT ![k] = "ask"]
    /\ UNCHANGED <<chats, lastChat, lastId, shown, paging, stream, load, deleting, clicks,
                   awaiting, parted>>

\* The question is stored: not again for a regenerated answer, not in a chat
\* that is gone, and for a workflow only if a model can be asked for its report.
Ask(k) ==
    /\ job[k] = "ask"
    /\ job' = [job EXCEPT ![k] = "answer"]
    /\ \/ /\ stream[k].kind # "regenerate"
          /\ Insert(k, "user") /\ stream' = Told(k, "user")
       \/ /\ (stream[k].kind \in {"regenerate", "workflow"} \/ stream[k].chat \notin chats)
          /\ UNCHANGED <<rows, lastId, stream>>
    /\ UNCHANGED <<chats, lastChat, shown, paging, load, deleting, clicks, awaiting, parted>>

\* The loop stores the answer, whole or broken off, or ends without a text.
Answer(k) ==
    /\ job[k] = "answer"
    /\ job' = [job EXCEPT ![k] = "over"]
    /\ \/ /\ Insert(k, "assistant")
          /\ stream' = Settled(IF stream[k].kind = "workflow" THEN stream ELSE Told(k, "assistant"),
                               job')
       \/ UNCHANGED <<rows, lastId>> /\ stream' = Settled(stream, job')
    /\ UNCHANGED <<chats, lastChat, shown, paging, load, deleting, clicks, awaiting, parted>>

-----------------------------------------------------------------------------
(* The page: an answer begins. *)

Said(role, c) == [role |-> role, sid |-> 0, chat |-> c, card |-> FALSE]

\* abortCurrentStream: a stream that is still read breaks off; one that only
\* has its end to run (finally) is not affected.
Aborted ==
    [k \in Streams |->
        IF k = controller /\ stream[k].phase = "open"
        THEN [stream[k] EXCEPT !.phase = "closing", !.wire = <<>>] ELSE stream[k]]
BreaksOff == Aborted # stream

\* The page shows the question and an empty answer and asks for the rest.  The
\* abort on the way takes isStreaming back.
Begin(k, kind, c, from, of, msgs, flag) ==
    /\ messages' = msgs
    /\ stream' = [Aborted EXCEPT ![k] =
          [phase |-> "open", kind |-> kind, chat |-> c, from |-> from, of |-> of,
           wire |-> <<>>]]
    /\ job' = [job EXCEPT ![k] = "cut"]
    /\ controller' = k /\ isStreaming' = flag

\* What the user asks for is bounded.
Click == clicks < MaxClicks /\ clicks' = clicks + 1

Unused(k) == stream[k].phase = "unused" /\ \A j \in 1 .. k - 1 : stream[j].phase # "unused"

\* A question whose row the page will not know.
Unnamed(kind, from) == kind = "workflow" \/ (kind = "edit" /\ from = 0)

\* sendMessage and runWorkflow in a chat.
SendMessage(k, kind) ==
    /\ Click
    /\ Unused(k) /\ ~ isStreaming /\ current # NoChat
    /\ Begin(k, kind, current, 0, NoChat,
             messages \o <<Said("user", current), Said("assistant", current)>>, FALSE)
    /\ parted' = (parted \/ BreaksOff \/ awaiting \/ Unnamed(kind, 0))
    /\ UNCHANGED <<stored, current, paging, load, deleting, awaiting>>

\* Without a chat they create one first.
AskForChat(k, kind) ==
    /\ Click
    /\ Unused(k) /\ ~ isStreaming /\ current = NoChat
    /\ isStreaming' = TRUE
    /\ stream' = [stream EXCEPT ![k].phase = "creating", ![k].kind = kind]
    /\ UNCHANGED <<stored, current, messages, controller, paging, job, load, deleting,
                   awaiting, parted>>

\* createNewSession: the chat is made and shown, empty.
NewSession ==
    /\ lastChat < MaxChats
    /\ lastChat' = lastChat + 1 /\ chats' = chats \cup {lastChat + 1}
    /\ current' = lastChat + 1 /\ awaiting' = FALSE

SendInNewChat(k) ==
    /\ stream[k].phase = "creating"
    /\ NewSession
    /\ Begin(k, stream[k].kind, lastChat + 1, 0, NoChat,
             <<Said("user", lastChat + 1), Said("assistant", lastChat + 1)>>, FALSE)
    /\ parted' = (parted \/ BreaksOff \/ Unnamed(stream[k].kind, 0))
    /\ UNCHANGED <<rows, lastId, paging, load, deleting, clicks>>

NoNewChat(k) ==
    /\ stream[k].phase = "creating"
    /\ stream' = [stream EXCEPT ![k].phase = "over"]
    /\ isStreaming' = (isStreaming /\ controller # NoStream)
    /\ UNCHANGED <<stored, current, messages, controller, paging, job, load, deleting, clicks,
                   awaiting, parted>>

\* editAndResend: the i-th message and what follows it give way to a new exchange.
Edit(k, i) ==
    /\ Click
    /\ Unused(k) /\ ~ isStreaming
    /\ messages[i].role = "user"
    /\ Begin(k, "edit", current, messages[i].sid, messages[i].chat,
             Append(SubSeq(messages, 1, i), Said("assistant", current)), FALSE)
    /\ parted' = (parted \/ BreaksOff \/ awaiting \/ Unnamed("edit", messages[i].sid))
    /\ UNCHANGED <<stored, current, paging, load, deleting, awaiting>>

\* regenerateLastMessage
Regenerate(k) ==
    /\ Click
    /\ Unused(k) /\ ~ isStreaming
    /\ \E i \in DOMAIN messages :
        /\ messages[i].role = "user"
        /\ \A j \in i + 1 .. Len(messages) : messages[j].role # "user"
        /\ Begin(k, "regenerate", current, 0, NoChat,
                 Append(SubSeq(messages, 1, i), Said("assistant", current)), FALSE)
    /\ parted' = (parted \/ BreaksOff \/ awaiting)
    /\ UNCHANGED <<stored, current, paging, load, deleting, awaiting>>

\* startStagedWorkflow turns the card into the answer; the only one to set
\* isStreaming after the abort.
StartCard(k, i) ==
    /\ Click
    /\ Unused(k) /\ ~ isStreaming
    /\ messages[i].card
    /\ Begin(k, "workflow", current, 0, NoChat,
             [messages EXCEPT ![i].card = FALSE], TRUE)
    /\ parted' = (parted \/ BreaksOff \/ awaiting \/ Unnamed("workflow", 0))
    /\ UNCHANGED <<stored, current, paging, load, deleting, awaiting>>

\* stageWorkflow in a chat, or once it has created one: that request may have
\* been on its way since before the answer now received was asked for.
Card(c) == [Said("assistant", c) EXCEPT !.card = TRUE]
StageCard ==
    /\ Click
    /\ \/ /\ ~ isStreaming /\ current # NoChat
          /\ messages' = Append(messages, Card(current))
          /\ UNCHANGED <<chats, lastChat, current, awaiting>>
       \/ NewSession /\ messages' = <<Card(lastChat + 1)>>
    /\ parted' = (parted \/ controller # NoStream)
    /\ UNCHANGED <<rows, lastId, isStreaming, controller, paging, stream, job, load, deleting>>

CancelCard(i) ==
    /\ Click
    /\ messages[i].card
    /\ messages' = RemoveAt(messages, i)
    /\ UNCHANGED <<stored, current, isStreaming, controller, paging, stream, job, load, deleting,
                   awaiting, parted>>

-----------------------------------------------------------------------------
(* The page: an answer arrives and ends. *)

\* adoptServerMessageId: the id goes to the last message of the role.
Adopt(event) ==
    messages' = [i \in DOMAIN messages |->
        IF /\ messages[i].role = event.role
           /\ \A j \in i + 1 .. Len(messages) : messages[j].role # event.role
        THEN [messages[i] EXCEPT !.sid = event.id] ELSE messages[i]]

\* An event of the stream; those of a workflow carry no ids the page takes.
ReceiveEvent(k) ==
    /\ stream[k].phase = "open" /\ stream[k].wire # <<>>
    /\ IF stream[k].kind # "workflow" THEN Adopt(Head(stream[k].wire)) ELSE UNCHANGED messages
    /\ stream' = [stream EXCEPT ![k].wire = Tail(@)]
    /\ UNCHANGED <<stored, current, isStreaming, controller, paging, job, load, deleting, clicks,
                   awaiting, parted>>

\* The last event was read, or the connection failed.
Ends(k) ==
    /\ stream[k].phase = "open" /\ stream[k].wire = <<>> /\ job[k] = "over"
    /\ stream' = [stream EXCEPT ![k].phase = "closing"]
    /\ UNCHANGED <<stored, shown, paging, job, load, deleting, clicks, awaiting, parted>>
Breaks(k) ==
    /\ stream[k].phase = "open"
    /\ stream' = [stream EXCEPT ![k].phase = "closing", ![k].wire = <<>>]
    /\ parted' = TRUE
    /\ UNCHANGED <<stored, shown, paging, job, load, deleting, clicks, awaiting>>

\* finally, after the writer has shown the rest and the chat was read again:
\* the controller is dropped, whoever it belongs to.
Finally(k) ==
    /\ stream[k].phase = "closing"
    /\ stream' = Settled([stream EXCEPT ![k].phase = "over"], job)
    /\ isStreaming' = FALSE /\ controller' = NoStream
    /\ parted' = (parted \/ controller \notin {NoStream, k})
    /\ UNCHANGED <<stored, current, messages, paging, job, load, deleting, clicks, awaiting>>

\* abortCurrentStream by itself: the stop button, the page is left.
Stop ==
    /\ Click
    /\ isStreaming \/ controller # NoStream
    /\ stream' = Aborted /\ controller' = NoStream /\ isStreaming' = FALSE
    /\ parted' = (parted \/ BreaksOff)
    /\ UNCHANGED <<stored, current, messages, paging, job, load, deleting, awaiting>>

-----------------------------------------------------------------------------
(* The page: other chats, older messages. *)

\* clearMessages; clearCurrentSession, as for a new chat.
Clear ==
    /\ Click
    /\ messages # <<>>
    /\ messages' = <<>>
    /\ stream' = Aborted /\ controller' = NoStream /\ isStreaming' = FALSE
    /\ parted' = TRUE
    /\ UNCHANGED <<stored, current, paging, job, load, deleting, awaiting>>
LeaveChat ==
    /\ Click
    /\ current # NoChat
    /\ current' = NoChat /\ messages' = <<>> /\ awaiting' = FALSE
    /\ stream' = Aborted /\ controller' = NoStream /\ isStreaming' = FALSE
    /\ parted' = (parted \/ BreaksOff)
    /\ UNCHANGED <<stored, paging, job, load, deleting>>

FreeLoad(l) == load[l].phase = "unused" /\ \A j \in 1 .. l - 1 : load[j].phase # "unused"
AskForPage(l, what, c, n, s) ==
    load' = [load EXCEPT ![l] = [NoLoad EXCEPT !.phase = "asked", !.what = what, !.chat = c,
                                               !.page = n, !.seq = s]]

\* selectSession shows the new chat's number at once, its messages when they come.
Select(l, c) ==
    /\ Click
    /\ FreeLoad(l) /\ c \in chats
    /\ stream' = Aborted /\ controller' = NoStream /\ isStreaming' = FALSE
    /\ current' = c /\ awaiting' = TRUE
    /\ seq' = seq + 1 /\ page' = 1 /\ total' = 0 /\ loadingMore' = FALSE
    /\ AskForPage(l, "select", c, 1, seq + 1)
    /\ parted' = (parted \/ BreaksOff)
    /\ UNCHANGED <<stored, messages, job, deleting>>

\* loadMoreMessages, as the page calls it: when more is known to be stored.
More(l) ==
    /\ Click
    /\ FreeLoad(l) /\ ~ loadingMore /\ current # NoChat
    /\ page * PageSize < total
    /\ loadingMore' = TRUE
    /\ AskForPage(l, "more", current, page + 1, seq)
    /\ UNCHANGED <<stored, shown, seq, page, total, stream, job, deleting, awaiting, parted>>

\* ai_usecase_messages_list
ServePage(l) ==
    LET found == ListPage(load[l].chat, load[l].page)
    IN  /\ load[l].phase = "asked" /\ load[l].chat \in chats
        /\ \E list \in [1 .. Cardinality(found) -> found] :
              /\ OldestFirst(list, found)
              /\ load' = [load EXCEPT ![l].phase = "served",
                    ![l].list = [i \in DOMAIN list |->
                       [Said(list[i].role, list[i].chat) EXCEPT !.sid = list[i].id]],
                    ![l].total = Cardinality(History(load[l].chat))]
        /\ UNCHANGED <<stored, shown, paging, stream, job, deleting, clicks, awaiting, parted>>

\* As if every answer were taken.
Wanted_always(l) == load[l].phase = "served"
\* An answer for a chat since left, or selected again, is dropped.
Wanted(l) == load[l].seq = seq /\ load[l].chat = current

TakeHistory(l) ==
    /\ load[l].phase = "served" /\ load[l].what = "select"
    /\ load' = [load EXCEPT ![l] = [NoLoad EXCEPT !.phase = "over"]]
    /\ IF Wanted(l)
       THEN /\ messages' = load[l].list /\ total' = load[l].total
            /\ awaiting' = FALSE
            /\ parted' = (parted \/ load[l].total > PageSize)
       ELSE UNCHANGED <<messages, total, awaiting, parted>>
    /\ UNCHANGED <<stored, current, isStreaming, controller, seq, page, loadingMore, stream, job,
                   deleting, clicks>>

\* The next page goes before the messages shown, turned round.
TakeMore(l) ==
    /\ load[l].phase = "served" /\ load[l].what = "more"
    /\ load' = [load EXCEPT ![l] = [NoLoad EXCEPT !.phase = "over"]]
    /\ loadingMore' = FALSE
    /\ IF Wanted(l)
       THEN /\ messages' = Reverse(load[l].list) \o messages
            /\ total' = load[l].total /\ page' = load[l].page
       ELSE UNCHANGED <<messages, total, page>>
    /\ UNCHANGED <<stored, current, isStreaming, controller, seq, stream, job, deleting, clicks,
                   awaiting, parted>>

LoadFails(l) ==
    /\ load[l].phase = "asked"
    /\ load' = [load EXCEPT ![l] = [NoLoad EXCEPT !.phase = "over"]]
    /\ loadingMore' = (loadingMore /\ load[l].what = "select")
    /\ UNCHANGED <<stored, shown, seq, page, total, stream, job, deleting, clicks, awaiting, parted>>

\* deleteSessionById breaks off the answer shown and asks; the rows go with the
\* chat, and the page lets go of it if it is still shown.
AskToDelete(c) ==
    /\ Click
    /\ c \in chats \ deleting
    /\ deleting' = deleting \cup {c}
    /\ IF current = c
       THEN /\ stream' = Aborted /\ controller' = NoStream /\ isStreaming' = FALSE
            /\ parted' = (parted \/ BreaksOff)
       ELSE UNCHANGED <<stream, controller, isStreaming, parted>>
    /\ UNCHANGED <<stored, current, messages, paging, job, load, awaiting>>
Delete(c) ==
    /\ c \in deleting
    /\ deleting' = deleting \ {c}
    /\ chats' = chats \ {c} /\ rows' = {r \in rows : r.chat # c}
    /\ IF current = c
       THEN current' = NoChat /\ messages' = <<>> /\ awaiting' = FALSE
       ELSE UNCHANGED <<current, messages, awaiting>>
    /\ UNCHANGED <<lastChat, lastId, isStreaming, controller, paging, stream, job, load, clicks,
                   parted>>

-----------------------------------------------------------------------------
ServerStep == \E k \in Streams : RefuseChat(k) \/ Cut(k) \/ Ask(k) \/ Answer(k)
AnswerBegins ==
    \/ \E k \in Streams, kind \in {"send", "workflow"} : SendMessage(k, kind) \/ AskForChat(k, kind)
    \/ \E k \in Streams : SendInNewChat(k) \/ NoNewChat(k) \/ Regenerate(k)
    \/ \E k \in Streams, i \in DOMAIN messages : Edit(k, i) \/ StartCard(k, i)
    \/ StageCard \/ \E i \in DOMAIN messages : CancelCard(i)
AnswerArrives ==
    \/ \E k \in Streams : ReceiveEvent(k) \/ Ends(k) \/ Breaks(k) \/ Finally(k)
    \/ Stop
Browse ==
    \/ Clear \/ LeaveChat
    \/ \E l \in Loads : \/ \E c \in chats : Select(l, c)
                        \/ More(l) \/ ServePage(l) \/ TakeHistory(l) \/ TakeMore(l) \/ LoadFails(l)
    \/ \E c \in chats : AskToDelete(c) \/ Delete(c)

ChatNext == ServerStep \/ AnswerBegins \/ AnswerArrives \/ Browse
ChatSpec == ChatInit /\ [][ChatNext]_chatVars

-----------------------------------------------------------------------------
\* Every message shown belongs to the chat that is current, once the history
\* of that chat has come: answers for chats left in the meantime, coming in any
\* order, mix nothing in (sessionSwitchSeq).
OneChatShown == awaiting \/ \A i \in DOMAIN messages : messages[i].chat = current

\* With nothing on its way, the page and the rows agree on the questions and on
\* the answers, each under its own id and in order, whatever was sent, edited, regenerated,
\* selected and deleted before - until an answer is broken off, is asked for
\* before the history came or while an older one still has its end to run, or
\* until the page shows part of a chat or a message whose id it is never told
\* (those of a workflow): from then on the two are parted.
AtRest ==
    /\ \A k \in Streams : job[k] \in {"unused", "over"} /\ stream[k].phase \in {"unused", "over"}
    /\ \A l \in Loads : load[l].phase \in {"unused", "over"}
    /\ ~ awaiting /\ current # NoChat
Numbered == {i \in DOMAIN messages : messages[i].sid # 0}
PageAgrees ==
    AtRest /\ ~ parted =>
        /\ \A i \in DOMAIN messages : messages[i].role = "user" => i \in Numbered
        /\ {<<messages[i].sid, messages[i].role>> : i \in Numbered}
              = {<<r.id, r.role>> : r \in History(current)}
        /\ \A i, j \in Numbered : i < j => messages[i].sid < messages[j].sid

\* An edit has the server cut the history of the chat whose message was edited.
\* It does not hold: while the history of another chat is on its way, or when it
\* cannot be read, the messages of the chat left are still shown under the
\* other's number.
CutsOwnChat ==
    \A k \in Streams : stream[k].kind = "edit" /\ stream[k].from > 0 => stream[k].of = stream[k].chat
=============================================================================
