----------------------------- MODULE ChatClient -----------------------------
(***************************************************************************)
(* The chats of the web client (src/frontend/src/main.js) and the requests *)
(* that answer them.  Handlers run one at a time and to their next await;  *)
(* a generation, a model load, a compute change and a file dialog continue *)
(* in a later step, with every user action possible in between.  The only  *)
(* guards are the flags busy and actionBusy.  Chats survive a reload as    *)
(* the last save() left them.  Storage quota, export and views are left    *)
(* out, and the prompt lab is a request without a chat.                    *)
(***************************************************************************)
EXTENDS Integers, Sequences

CONSTANTS Ids,          \* chat ids
          Prompts,      \* texts a user types
          NoText,       \* the empty draft
          Nowhere,      \* the chat of a lab request
          MaxMessages,  \* messages in a chat (bound, 2,000 in an import)
          MaxActions    \* loads and compute changes under way (bound)

VARIABLES
  chats,        \* s.chats: the open chats, by id
  active,       \* s.active
  stored,       \* localStorage["fyodor-state"]: chats and active
  busy,         \* s.busy
  actionBusy,   \* s.actionBusy
  request,      \* ui.request, and the prompt and target of its generate()
  edit,         \* ui.editChatId and ui.editIndex
  dialogs,      \* load() calls that await chooseModel()
  calls         \* loadModel and setCompute calls that await the server

vars == <<chats, active, stored, busy, actionBusy, request, edit, dialogs, calls>>
flags == <<busy, actionBusy, request, dialogs, calls>>

User(p)   == [role |-> "user", text |-> p]
Answer(p) == [role |-> "assistant", text |-> p]  \* an answer to p, whole or not
EmptyChat == [messages |-> <<>>, draft |-> NoText]
NoRequest == [chat |-> Nowhere, prompt |-> NoText, stream |-> FALSE, partial |-> FALSE]
NoEdit    == [chat |-> Nowhere, index |-> 0]

Init == /\ \E c \in Ids : chats = [i \in {c} |-> EmptyChat] /\ active = c
        /\ stored = [chats |-> chats, active |-> active]
        /\ busy = FALSE /\ actionBusy = FALSE
        /\ request = NoRequest /\ edit = NoEdit
        /\ dialogs = 0 /\ calls = 0

Here == chats[active].messages

\* The chats become cs, a is open, and save() stores both; render() ends with
\* a save() too.
Save(cs, a) == /\ chats' = cs /\ active' = a
               /\ stored' = [chats |-> cs, active |-> a]

\* messages.splice(index), of the message in place k.
Cut(cs, k) ==
  [cs EXCEPT ![active].messages = IF k > Len(@) THEN @ ELSE SubSeq(@, 1, k - 1)]

With(cs, c, chat) == [i \in DOMAIN cs \cup {c} |-> IF i = c THEN chat ELSE cs[i]]

----------------------------------------------------------------------------
\* generate(p) in the active chat, called when the chats are cs: nothing
\* happens while a request or an action is in progress.
Generate(cs, p) ==
  IF busy \/ actionBusy
  THEN chats' = cs /\ UNCHANGED <<active, stored, busy, request>>
  ELSE /\ Save([cs EXCEPT ![active] = [messages |-> Append(@.messages, User(p)),
                                      draft |-> NoText]], active)
       /\ busy' = TRUE
       /\ \E stream \in BOOLEAN :
            request' = [chat |-> active, prompt |-> p, stream |-> stream,
                        partial |-> FALSE]

\* The composer is submitted: an edited message and all after it are replaced.
Submit == LET p == chats[active].draft
          IN /\ p # NoText /\ ~busy
             /\ Len(Here) < MaxMessages - 1
             /\ Generate(IF edit.index # 0 /\ edit.chat = active
                         THEN Cut(chats, edit.index) ELSE chats, p)
             /\ edit' = NoEdit
             /\ UNCHANGED <<actionBusy, dialogs, calls>>

\* "Regenerate" under an answer: back to the user message before it.
Regenerate ==
  \E i \in DOMAIN Here :
    /\ Here[i].role = "assistant" /\ ~busy
    /\ \E k \in 1 .. i - 1 :
         /\ Here[k].role = "user"
         /\ \A j \in k + 1 .. i - 1 : Here[j].role # "user"
         /\ Generate(Cut(chats, k), Here[k].text)
    /\ UNCHANGED <<actionBusy, edit, dialogs, calls>>

Lab == /\ ~busy /\ ~actionBusy
       /\ busy' = TRUE
       /\ \E p \in Prompts : request' = [NoRequest EXCEPT !.prompt = p]
       /\ Save(chats, active)
       /\ UNCHANGED <<actionBusy, edit, dialogs, calls>>

Update == /\ busy /\ request.stream
          /\ request' = [request EXCEPT !.partial = TRUE]
          /\ UNCHANGED <<chats, active, stored, busy, actionBusy, edit, dialogs, calls>>

\* Mutant: the answer goes to the chat that is open when it arrives.
PushToActive == [chats EXCEPT ![active].messages = Append(@, Answer(request.prompt))]

\* target.messages.push(answer): the chat captured when the prompt was sent.
Push == IF request.chat = Nowhere THEN chats
        ELSE [chats EXCEPT ![request.chat].messages =
                             Append(@, Answer(request.prompt))]

\* target.messages.pop() and target.draft = prompt.
Withdraw == IF request.chat = Nowhere THEN chats
            ELSE [chats EXCEPT ![request.chat] =
                    [messages |-> SubSeq(@.messages, 1, Len(@.messages) - 1),
                     draft |-> request.prompt]]

\* finally
Settle(cs) == /\ busy' = FALSE /\ request' = NoRequest
              /\ Save(cs, active)
              /\ UNCHANGED <<actionBusy, edit, dialogs, calls>>

Answered == busy /\ Settle(Push)

\* An error, or Stop: text that had arrived is kept as the answer.
Failed == busy /\ Settle(IF request.partial THEN Push ELSE Withdraw)

----------------------------------------------------------------------------
\* The composer is disabled during a request.
Type == /\ ~busy
        /\ \E p \in Prompts : Save([chats EXCEPT ![active].draft = p], active)
        /\ UNCHANGED <<flags, edit>>

\* "Edit & resend" under a message of the user.
Edit == \E i \in DOMAIN Here :
          /\ Here[i].role = "user" /\ ~busy
          /\ chats' = [chats EXCEPT ![active].draft = Here[i].text]
          /\ edit' = [chat |-> active, index |-> i]
          /\ UNCHANGED <<active, stored, flags>>

Clear == /\ ~busy
         /\ Save([chats EXCEPT ![active].messages = <<>>], active)
         /\ UNCHANGED <<flags, edit>>

\* newChat(), and the import of a chat that was exported.
Open == \E c \in Ids \ DOMAIN chats, p \in Prompts :
          /\ \E ms \in {<<>>, <<User(p), Answer(p)>>} :
               Save(With(chats, c, [messages |-> ms, draft |-> NoText]), c)
          /\ UNCHANGED <<flags, edit>>

Select == /\ \E c \in DOMAIN chats : Save(chats, c)
          /\ UNCHANGED <<flags, edit>>

----------------------------------------------------------------------------
\* load(): the flags are tested before the file dialog, not after it.
Load == /\ ~busy /\ ~actionBusy
        /\ dialogs + calls < MaxActions
        /\ dialogs' = dialogs + 1
        /\ UNCHANGED <<chats, active, stored, busy, actionBusy, request, edit, calls>>

Chosen == /\ dialogs > 0
          /\ dialogs' = dialogs - 1
          /\ \/ UNCHANGED <<chats, active, stored, actionBusy, calls>>
             \/ actionBusy' = TRUE /\ calls' = calls + 1 /\ Save(chats, active)
          /\ UNCHANGED <<busy, request, edit>>

SetCompute == /\ ~busy /\ ~actionBusy
              /\ dialogs + calls < MaxActions
              /\ actionBusy' = TRUE /\ calls' = calls + 1
              /\ Save(chats, active)
              /\ UNCHANGED <<busy, request, edit, dialogs>>

\* finally, of both, and the render() at the end of their refresh().
ActionEnds == /\ calls > 0
              /\ calls' = calls - 1 /\ actionBusy' = FALSE
              /\ UNCHANGED <<chats, active, stored, busy, request, edit, dialogs>>

Render == Save(chats, active) /\ UNCHANGED <<flags, edit>>

\* The page is loaded again: what was in memory is gone.
Reload == /\ chats' = stored.chats /\ active' = stored.active
          /\ busy' = FALSE /\ actionBusy' = FALSE
          /\ request' = NoRequest /\ edit' = NoEdit
          /\ dialogs' = 0 /\ calls' = 0
          /\ UNCHANGED stored

Next == \/ Submit \/ Regenerate \/ Lab \/ Update \/ Answered \/ Failed
        \/ Type \/ Edit \/ Clear \/ Open \/ Select
        \/ Load \/ Chosen \/ SetCompute \/ ActionEnds \/ Render \/ Reload

Spec == Init /\ [][Next]_vars

----------------------------------------------------------------------------
Drafts == Prompts \cup {NoText}
Messages == [role : {"user", "assistant"}, text : Prompts]
Chats  == [messages : Seq(Messages), draft : Drafts]

\* Every variable keeps its type; the active chat is an open one, in memory
\* and in the store.
TypeOK == /\ active \in DOMAIN chats /\ stored.active \in DOMAIN stored.chats
          /\ \A c \in DOMAIN chats : chats[c] \in Chats
          /\ \A c \in DOMAIN stored.chats : stored.chats[c] \in Chats
          /\ DOMAIN stored.chats = DOMAIN chats
          /\ {busy, actionBusy} \subseteq BOOLEAN
          /\ ~busy => request = NoRequest
          /\ dialogs + calls \in 0 .. MaxActions

\* However chats are switched, cleared, edited, regenerated, imported or
\* reloaded while a request is in progress, an answer stands behind the very
\* prompt it answers.
AnswersFollowPrompts ==
  \A c \in DOMAIN chats : LET ms == chats[c].messages
                          IN \A i \in DOMAIN ms : ms[i].role = "assistant" =>
                               i > 1 /\ ms[i - 1] = User(ms[i].text)

\* As long as a prompt is being answered it is the last message of its chat,
\* in memory and in the store: a failure takes back that prompt and no other
\* message, and a reload loses no prompt ("A failed request preserves the
\* prompt", frontend/README.md).
PromptIsKept ==
  request.chat # Nowhere =>
    \A cs \in {chats, stored.chats} :
      /\ request.chat \in DOMAIN cs
      /\ LET ms == cs[request.chat].messages
         IN ms # <<>> /\ ms[Len(ms)] = User(request.prompt)

\* "Chat preserves conversation history" (frontend/README.md): a message
\* leaves a chat only when the user clears it or the page is loaded again, or
\* to make room for a prompt that is sent again or put back into the composer.
Kept(c) == /\ c \in DOMAIN chats'
           /\ Len(chats[c].messages) <= Len(chats'[c].messages)
HistoryIsKept ==
  [][Clear \/ Reload
     \/ \A c \in DOMAIN chats : \/ Kept(c)
                                \/ request'.chat = c
                                \/ request.chat = c /\ chats'[c].draft = request.prompt]_vars
=============================================================================
