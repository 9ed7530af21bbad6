--------------------------- MODULE ComposerDrafts ---------------------------
(***************************************************************************)
(* Unsent messages of one renderer: composerDrafts of the store, their     *)
(* restoring and saving (apps/web/src/state/remoteComposerDrafts.ts), the  *)
(* files behind them (apps/server/src/composerDrafts.ts) and the quit of   *)
(* the desktop shell, which waits for them (apps/desktop/main.js).         *)
(*                                                                         *)
(* A draft is a number: Nothing is the empty composer, and each edit makes *)
(* a new one, as each makes a new object in the store.  One GET or PUT is  *)
(* three steps: asked, served, answered.                                   *)
(***************************************************************************)
EXTENDS Integers

CONSTANTS
  Chats,        \* session ids
  Unrestored,   \* those recoverUnknownSession created: shown, but not restored
  Restores,     \* calls of restoreComposerDraft under way
  MaxEdits,     \* bound: texts typed
  MaxOutages    \* bound: requests that fail

ASSUME DraftsAssumption ==
  Unrestored \subseteq Chats /\ MaxEdits \in Nat /\ MaxOutages \in Nat

VARIABLES
  draft,      \* store.composerDrafts
  enabled, failed,   \* the sets of the same names
  queued,     \* pending: the newest draft behind the one being sent
  sent,       \* writes: the draft a PUT is under way with
  landed,     \* the chats whose PUT was served
  restore,    \* the calls of restoreComposerDraft
  removed,    \* chats forgotten, on the server deleted
  saved,      \* the files
  quit,       \* the shell's draftFlushRequest, and the close it leads to
  flushed,    \* draftsFlushedForQuit
  barrier,    \* the writes flushAllComposerDrafts awaits
  typed,      \* history: what the user left in the composer
  edits, outages

requests == <<queued, sent, landed, failed>>
shell == <<quit, flushed, barrier>>
draftVars == <<draft, enabled, failed, queued, sent, landed, restore, removed, saved,
               quit, flushed, barrier, typed, edits, outages>>

NoDraft == -1
Nothing == 0
Texts == 0 .. MaxEdits + 1
Writing == {c \in Chats : sent[c] # NoDraft}
NoRestore == [at |-> "none"]

\* Types; a write belongs to a restored chat, a barrier to a flush that waits.
DraftTypeOK ==
  /\ draft \in [Chats -> Texts] /\ typed \in [Chats -> Texts] /\ saved \in [Chats -> Texts]
  /\ enabled \subseteq Chats /\ failed \subseteq enabled \ Writing /\ removed \subseteq Chats
  /\ queued \in [Chats -> Texts \cup {NoDraft}] /\ sent \in [Chats -> Texts \cup {NoDraft}]
  /\ landed \subseteq Writing /\ Writing \subseteq enabled /\ barrier \subseteq Writing
  /\ quit = "waiting" <=> barrier # {}
  /\ restore \in [Restores -> {NoRestore} \cup
                    [at : {"asked", "read"}, of : Chats, before : Texts, read : Texts]]
  /\ quit \in {"none", "asked", "waiting", "answered", "closing", "closed"}
  /\ flushed \in BOOLEAN
  /\ edits \in 0 .. MaxEdits /\ outages \in 0 .. MaxOutages

DraftInit ==
  /\ saved \in [Chats -> {Nothing, 1}]
  /\ draft = [c \in Chats |-> Nothing] /\ typed = [c \in Chats |-> Nothing]
  /\ enabled = {} /\ failed = {} /\ removed = {}
  /\ queued = [c \in Chats |-> NoDraft] /\ sent = queued /\ landed = {}
  /\ restore = [r \in Restores |-> NoRestore]
  /\ quit = "none" /\ flushed = FALSE /\ barrier = {}
  /\ edits = 0 /\ outages = 0

WindowOpen == quit # "closed"

-----------------------------------------------------------------------------
(* Saving.                                                                 *)

\* queueDraftSave: behind the write under way, or a write of its own.
QueueSave(c, d) ==
  /\ failed' = failed \ {c}
  /\ IF c \in Writing
     THEN queued' = [queued EXCEPT ![c] = d] /\ UNCHANGED sent
     ELSE queued' = [queued EXCEPT ![c] = NoDraft] /\ sent' = [sent EXCEPT ![c] = d]
  /\ UNCHANGED landed

\* The user types, or empties the composer (a message sent does).  A chat is shown once
\* it was restored, but for those a recovery created.
Edit(c, d) ==
  /\ WindowOpen /\ c \in (enabled \cup Unrestored) \ removed /\ d # draft[c]
  /\ d = Nothing \/ d = edits + 2
  /\ edits < MaxEdits /\ edits' = edits + 1
  /\ draft' = [draft EXCEPT ![c] = d] /\ typed' = [typed EXCEPT ![c] = d]
  /\ IF c \in enabled THEN QueueSave(c, d) ELSE UNCHANGED requests
  /\ UNCHANGED <<enabled, restore, removed, saved, shell, outages>>

\* PUT: the file is replaced at once, unless the session is gone.
PutServed(c) ==
  /\ c \in Writing \ landed
  /\ landed' = landed \cup {c}
  /\ saved' = [saved EXCEPT ![c] = sent[c]]
  /\ UNCHANGED <<draft, enabled, failed, queued, sent, restore, removed, shell, typed, edits,
                 outages>>

\* A flush waits for the writes w: for those begun meanwhile once all it awaited is over.
Await(w) ==
  LET next == IF w = {} THEN {c \in Chats : sent'[c] # NoDraft} ELSE w IN
  barrier' = next /\ quit' = IF next = {} THEN "answered" ELSE "waiting"
NotAwaited == UNCHANGED <<barrier, quit>>
Refused == barrier' = {} /\ quit' = "none"

\* The write ends, or goes on with what was queued behind it.
PutAnswered(c) ==
  /\ WindowOpen /\ c \in landed
  /\ sent' = [sent EXCEPT ![c] = queued[c]] /\ queued' = [queued EXCEPT ![c] = NoDraft]
  /\ landed' = landed \ {c}
  /\ IF c \in barrier /\ queued[c] = NoDraft THEN Await(barrier \ {c}) ELSE NotAwaited
  /\ UNCHANGED <<draft, enabled, failed, restore, removed, saved, flushed, typed, edits,
                 outages>>

\* A mutant: the failure is not kept.
PutFailsQuietly(c) ==
  /\ WindowOpen /\ c \in Writing /\ outages < MaxOutages /\ outages' = outages + 1
  /\ sent' = [sent EXCEPT ![c] = NoDraft] /\ landed' = landed \ {c}
  /\ IF c \in barrier THEN Refused ELSE NotAwaited
  /\ UNCHANGED <<draft, enabled, failed, queued, restore, removed, saved, flushed, typed, edits>>

\* The request or its answer fails: what is queued behind it stays where it is, and a
\* flush that waits for it is refused.
PutFails(c) ==
  /\ WindowOpen /\ c \in Writing /\ outages < MaxOutages /\ outages' = outages + 1
  /\ sent' = [sent EXCEPT ![c] = NoDraft] /\ landed' = landed \ {c}
  /\ failed' = failed \cup {c}
  /\ IF c \in barrier THEN Refused ELSE NotAwaited
  /\ UNCHANGED <<draft, enabled, queued, restore, removed, saved, flushed, typed, edits>>

\* flushComposerDraft, before a prompt: a failed save is tried again.
Retry(c) ==
  /\ WindowOpen /\ c \in failed
  /\ QueueSave(c, draft[c])
  /\ UNCHANGED <<draft, enabled, restore, removed, saved, shell, typed, edits, outages>>

-----------------------------------------------------------------------------
(* Restoring and forgetting.                                               *)

RestoreAsked(r, c) ==
  /\ WindowOpen /\ restore[r].at = "none" /\ c \notin enabled \cup removed
  /\ restore' = [restore EXCEPT ![r] = [at |-> "asked", of |-> c, before |-> draft[c],
                                        read |-> Nothing]]
  /\ UNCHANGED <<draft, enabled, requests, removed, saved, shell, typed, edits, outages>>

RestoreServed(r) ==
  /\ restore[r].at = "asked"
  /\ restore' = [restore EXCEPT ![r].at = "read", ![r].read = saved[restore[r].of]]
  /\ UNCHANGED <<draft, enabled, requests, removed, saved, shell, typed, edits, outages>>

RestoreFails(r) ==
  /\ WindowOpen /\ restore[r].at # "none" /\ outages < MaxOutages /\ outages' = outages + 1
  /\ restore' = [restore EXCEPT ![r] = NoRestore]
  /\ UNCHANGED <<draft, enabled, requests, removed, saved, shell, typed, edits>>

\* The answer fills a composer that is as it was; one that was edited meanwhile is saved.
RestoreAnswered(r) ==
  LET c == restore[r].of IN
  /\ WindowOpen /\ restore[r].at = "read"
  /\ restore' = [restore EXCEPT ![r] = NoRestore]
  /\ IF c \in removed THEN UNCHANGED <<draft, enabled, requests>>
     ELSE /\ enabled' = enabled \cup {c}
          /\ IF draft[c] = restore[r].before
             THEN draft' = [draft EXCEPT ![c] = restore[r].read] /\ UNCHANGED requests
             ELSE QueueSave(c, draft[c]) /\ UNCHANGED draft
  /\ UNCHANGED <<removed, saved, shell, typed, edits, outages>>

\* The session is deleted, its file with it, and the renderer forgets its draft (as one
\* step).  A PUT under way is answered or refused, and a barrier that awaits it with it.
RemoveChat(c) ==
  /\ WindowOpen /\ c \notin removed /\ removed' = removed \cup {c}
  /\ enabled' = enabled \ {c} /\ failed' = failed \ {c}
  /\ queued' = [queued EXCEPT ![c] = NoDraft] /\ sent' = [sent EXCEPT ![c] = NoDraft]
  /\ landed' = landed \ {c}
  /\ IF c \in barrier THEN Await(barrier \ {c}) \/ Refused ELSE NotAwaited
  /\ draft' = [draft EXCEPT ![c] = Nothing] /\ typed' = [typed EXCEPT ![c] = Nothing]
  /\ saved' = [saved EXCEPT ![c] = Nothing]
  /\ UNCHANGED <<restore, flushed, edits, outages>>

-----------------------------------------------------------------------------
(* Quitting.                                                               *)

\* Closing the window or quitting: the renderer is asked to flush, once; after it did,
\* the window closes.
AskQuit ==
  /\ quit = "none" /\ quit' = IF flushed THEN "closing" ELSE "asked"
  /\ UNCHANGED <<draft, enabled, requests, restore, removed, saved, flushed, barrier, typed,
                 edits, outages>>

\* flushAllComposerDrafts: what failed is tried again, and every write awaited.
FlushBegins ==
  /\ quit = "asked"
  /\ sent' = [c \in Chats |-> IF c \in failed THEN draft[c] ELSE sent[c]]
  /\ queued' = [c \in Chats |-> IF c \in failed THEN NoDraft ELSE queued[c]]
  /\ failed' = {}
  /\ Await({})
  /\ UNCHANGED <<draft, enabled, landed, restore, removed, saved, flushed, typed, edits, outages>>

\* The shell gives up after its 15 s, and says so; a later answer is not its own.
FlushTimesOut ==
  /\ quit \in {"asked", "waiting", "answered"} /\ quit' = "none" /\ barrier' = {}
  /\ UNCHANGED <<draft, enabled, requests, restore, removed, saved, flushed, typed, edits,
                 outages>>

\* The shell takes the answer and quits.
FlushAnswered ==
  /\ quit = "answered" /\ quit' = "closing" /\ flushed' = TRUE
  /\ UNCHANGED <<draft, enabled, requests, restore, removed, saved, barrier, typed, edits,
                 outages>>

\* beforeunload: a save under way or failed keeps the window open.
BeforeUnload ==
  /\ quit = "closing"
  /\ quit' = IF Writing = {} /\ failed = {} THEN "closed" ELSE "none"
  /\ UNCHANGED <<draft, enabled, requests, restore, removed, saved, flushed, barrier, typed,
                 edits, outages>>

DraftNext ==
  \/ \E c \in Chats :
       \/ \E d \in Texts : Edit(c, d)
       \/ PutServed(c) \/ PutAnswered(c) \/ PutFails(c) \/ Retry(c) \/ RemoveChat(c)
       \/ \E r \in Restores : RestoreAsked(r, c)
  \/ \E r \in Restores : RestoreServed(r) \/ RestoreFails(r) \/ RestoreAnswered(r)
  \/ AskQuit \/ FlushBegins \/ FlushTimesOut \/ FlushAnswered \/ BeforeUnload

DraftSpec == DraftInit /\ [][DraftNext]_draftVars

-----------------------------------------------------------------------------
(* Properties.                                                             *)

\* "A late response never overwrites edits made meanwhile": what the user typed is what
\* the composer holds, until he changes it.
EditsSurvive == \A c \in Chats : typed[c] # Nothing => draft[c] = typed[c]

\* The window closes only over saved text: every unsent message the user typed is in its
\* file, whatever failed, was queued, or was edited while the quit was under way.
QuitLosesNothing ==
  quit = "closed" => \A c \in Chats : typed[c] # Nothing => saved[c] = typed[c]
=============================================================================
