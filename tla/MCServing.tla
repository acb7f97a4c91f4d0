----------------------------- MODULE MCServing ------------------------------
(***************************************************************************)
(* The two ends of the program's HTTP interface: the request handlers      *)
(* around the model registry (ModelServing) and the window that keeps the  *)
(* chats (ChatClient).  They share no state, so a behaviour drives one of  *)
(* them and leaves the other as it started.                                *)
(***************************************************************************)
EXTENDS ModelServing, TLC

CONSTANTS ChatNames, Prompts, NoText, Nowhere, MaxMessages, MaxActions

VARIABLES chats, active, stored, busy, actionBusy, request, edit, dialogs, calls,
          driven

Client == INSTANCE ChatClient WITH Ids <- ChatNames

server == vars
client == <<chats, active, stored, busy, actionBusy, request, edit, dialogs, calls>>

ServerStep == driven = "server" /\ Next /\ UNCHANGED <<client, driven>>
ClientStep == driven = "client" /\ Client!Next /\ UNCHANGED <<server, driven>>

ServingInit == driven \in {"server", "client"} /\ Init /\ Client!Init
ServingNext == ServerStep \/ ClientStep
ServingSpec == ServingInit /\ [][ServingNext]_<<server, client, driven>>

\* Workers, files, chats and prompts are interchangeable, and no property is
\* temporal.  A behaviour drives one component, so the two elements of a set of
\* each are swapped together.
Swaps(S, T) == {f \in Permutations(S \cup T) :
                  /\ \A x \in S : f[x] \in S
                  /\ (\A x \in S \cup T : f[x] = x) \/ (\A x \in S \cup T : f[x] # x)}
Symmetry == {f @@ g : f \in Swaps(Workers, ChatNames), g \in Swaps(Paths, Prompts)}

\* An answer stands behind the prompt it answers, and a prompt being answered
\* is the last message of its chat.
ChatsAreOrdered == Client!AnswersFollowPrompts /\ Client!PromptIsKept
=============================================================================
