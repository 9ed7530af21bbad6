--------------------------- MODULE Renderer_proofs ---------------------------
(***************************************************************************)
(* Proofs about the drafts of a renderer (ComposerDrafts), and about both  *)
(* its parts together (MCEventStream): for any number of chats, restores,  *)
(* edits and failures, where every chat that is shown was restored first,  *)
(* what the user typed stays in its composer and is on disk when the       *)
(* window closes.                                                          *)
(***************************************************************************)
EXTENDS MCEventStream, EventStream_proofs

\* A chat that is not restored is blank, and so it was when a restore was asked for.
BlankUntilRestored ==
  /\ \A c \in Chats : c \notin enabled => draft[c] = Nothing /\ typed[c] = Nothing
  /\ \A r \in Restores : restore[r].at # "none" => restore[r].before = Nothing

\* The newest draft the writes of a chat lead to.
NewestDraft(c) == IF queued[c] = NoDraft THEN sent[c] ELSE queued[c]

\* A text is on disk, on its way there, or known to have failed.
OnItsWay ==
  \A c \in Chats : typed[c] # Nothing =>
    \/ c \in failed
    \/ c \in Writing /\ NewestDraft(c) = typed[c]
    \/ c \notin Writing /\ saved[c] = typed[c]

LandedIsSaved == \A c \in landed : saved[c] = sent[c]
ClosedIsQuiet == quit = "closed" => Writing = {} /\ failed = {}

DraftInv ==
  DraftTypeOK /\ BlankUntilRestored /\ EditsSurvive /\ OnItsWay /\ LandedIsSaved /\ ClosedIsQuiet

\* A queued save keeps the table of writes well formed, and leads to the draft d.
LEMMA QueueSaveIs ==
  ASSUME DraftTypeOK, NEW c \in Chats, NEW d \in Texts, QueueSave(c, d)
  PROVE  /\ queued' \in [Chats -> Texts \cup {NoDraft}] /\ sent' \in [Chats -> Texts \cup {NoDraft}]
         /\ failed' = failed \ {c} /\ landed' = landed
         /\ Writing' = Writing \cup {c}
         /\ \A x \in Chats : NewestDraft(x)' = IF x = c THEN d ELSE NewestDraft(x)
         /\ \A x \in landed : sent'[x] = sent[x]
<1>1. d # NoDraft
  BY DraftsAssumption DEF Texts, NoDraft
<1>2. CASE c \in Writing
  BY <1>1, <1>2 DEF DraftTypeOK, QueueSave, Writing, NewestDraft
<1>3. CASE c \notin Writing
  BY <1>1, <1>3 DEF DraftTypeOK, QueueSave, Writing, NewestDraft
<1> QED
  BY <1>2, <1>3

LEMMA DraftInitInv == DraftInit => DraftInv
<1> SUFFICES ASSUME DraftInit PROVE DraftInv
  OBVIOUS
<1>1. Nothing \in Texts /\ 1 \in Texts
  BY DraftsAssumption DEF Texts, Nothing
<1>2. Writing = {}
  BY DEF DraftInit, Writing
<1>3. /\ draft \in [Chats -> Texts] /\ typed \in [Chats -> Texts] /\ saved \in [Chats -> Texts]
      /\ queued \in [Chats -> Texts \cup {NoDraft}] /\ sent \in [Chats -> Texts \cup {NoDraft}]
      /\ edits \in 0 .. MaxEdits /\ outages \in 0 .. MaxOutages
  BY <1>1, DraftsAssumption DEF DraftInit
<1>4. DraftTypeOK
  BY <1>2, <1>3 DEF DraftInit, DraftTypeOK
<1>5. BlankUntilRestored /\ EditsSurvive /\ OnItsWay
  BY DEF DraftInit, BlankUntilRestored, EditsSurvive, OnItsWay, NoRestore
<1>6. LandedIsSaved /\ ClosedIsQuiet
  BY DEF DraftInit, LandedIsSaved, ClosedIsQuiet
<1> QED
  BY <1>4, <1>5, <1>6 DEF DraftInv

\* Types are kept by every step of the writes, the restores and the quit, whatever chats
\* are shown unrestored.
LEMMA DraftStepTypes ==
  ASSUME DraftTypeOK, [DraftNext]_draftVars
  PROVE  DraftTypeOK'
<1>a. Nothing \in Texts /\ NoDraft \notin Texts /\ Nothing # NoDraft
  BY DraftsAssumption DEF Texts, Nothing, NoDraft
<1>1. ASSUME NEW c \in Chats, NEW d \in Texts, Edit(c, d) PROVE DraftTypeOK'
  <2>1. /\ draft' = [draft EXCEPT ![c] = d] /\ typed' = [typed EXCEPT ![c] = d]
        /\ UNCHANGED <<enabled, restore, removed, saved, quit, flushed, barrier, outages>>
        /\ edits < MaxEdits /\ edits' = edits + 1
    BY <1>1 DEF Edit, shell
  <2>2. CASE c \in enabled
    BY <1>1, <2>1, <2>2, QueueSaveIs, DraftsAssumption DEF DraftTypeOK, Edit
  <2>3. CASE c \notin enabled
    BY <1>1, <2>1, <2>3, DraftsAssumption DEF DraftTypeOK, Edit, requests, Writing
  <2> QED
    BY <2>2, <2>3
<1>2. ASSUME NEW c \in Chats, PutServed(c) PROVE DraftTypeOK'
  BY <1>2 DEF PutServed, DraftTypeOK, Writing, shell
<1>3. ASSUME NEW c \in Chats, PutAnswered(c) PROVE DraftTypeOK'
  BY <1>3, <1>a DEF PutAnswered, DraftTypeOK, Await, NotAwaited, Writing, WindowOpen
<1>4. ASSUME NEW c \in Chats, PutFails(c) PROVE DraftTypeOK'
  BY <1>4, <1>a, DraftsAssumption DEF PutFails, DraftTypeOK, Refused, NotAwaited, Writing, WindowOpen
<1>5. ASSUME NEW c \in Chats, Retry(c) PROVE DraftTypeOK'
  <2>1. /\ draft[c] \in Texts /\ QueueSave(c, draft[c]) /\ c \in enabled
        /\ UNCHANGED <<draft, enabled, restore, removed, saved, quit, flushed, barrier, typed,
                       edits, outages>>
    BY <1>5 DEF Retry, shell, DraftTypeOK
  <2> QED
    BY <2>1, QueueSaveIs DEF DraftTypeOK
<1>6. ASSUME NEW c \in Chats, RemoveChat(c) PROVE DraftTypeOK'
  BY <1>6, <1>a DEF RemoveChat, DraftTypeOK, Await, NotAwaited, Refused, Writing, WindowOpen
<1>7. ASSUME NEW r \in Restores, NEW c \in Chats, RestoreAsked(r, c) PROVE DraftTypeOK'
  BY <1>7, <1>a DEF RestoreAsked, requests, shell, DraftTypeOK, Writing
<1>8. ASSUME NEW r \in Restores, RestoreServed(r) PROVE DraftTypeOK'
  <2>1. /\ UNCHANGED <<draft, enabled, queued, sent, landed, failed, removed, saved, quit,
                       flushed, barrier, typed, edits, outages>>
        /\ restore[r] \in [at : {"asked", "read"}, of : Chats, before : Texts, read : Texts]
        /\ restore' = [restore EXCEPT ![r].at = "read", ![r].read = saved[restore[r].of]]
    BY <1>8 DEF RestoreServed, requests, shell, DraftTypeOK, NoRestore
  <2> QED
    BY <2>1 DEF DraftTypeOK, Writing
<1>9. ASSUME NEW r \in Restores, RestoreFails(r) PROVE DraftTypeOK'
  BY <1>9, DraftsAssumption DEF RestoreFails, requests, shell, DraftTypeOK, Writing, NoRestore
<1>10. ASSUME NEW r \in Restores, RestoreAnswered(r) PROVE DraftTypeOK'
  <2> DEFINE c == restore[r].of
  <2>1. /\ c \in Chats /\ restore[r].read \in Texts /\ draft[c] \in Texts
        /\ restore' = [restore EXCEPT ![r] = NoRestore]
        /\ UNCHANGED <<removed, saved, quit, flushed, barrier, typed, edits, outages>>
    BY <1>10 DEF RestoreAnswered, shell, DraftTypeOK, NoRestore
  <2>2. restore' \in [Restores -> {NoRestore} \cup
                       [at : {"asked", "read"}, of : Chats, before : Texts, read : Texts]]
    BY <2>1 DEF DraftTypeOK
  <2>3. CASE UNCHANGED <<draft, enabled, requests>>
    BY <2>1, <2>2, <2>3 DEF requests, DraftTypeOK, Writing
  <2>4. CASE /\ enabled' = enabled \cup {c}
             /\ draft' = [draft EXCEPT ![c] = restore[r].read] /\ UNCHANGED requests
    BY <2>1, <2>2, <2>4 DEF requests, DraftTypeOK, Writing
  <2>5. CASE enabled' = enabled \cup {c} /\ QueueSave(c, draft[c]) /\ UNCHANGED draft
    BY <2>1, <2>2, <2>5, QueueSaveIs DEF DraftTypeOK
  <2> QED
    BY <1>10, <2>3, <2>4, <2>5 DEF RestoreAnswered
<1>11. CASE FlushBegins
  <2>1. /\ sent' = [c \in Chats |-> IF c \in failed THEN draft[c] ELSE sent[c]]
        /\ queued' = [c \in Chats |-> IF c \in failed THEN NoDraft ELSE queued[c]]
        /\ failed' = {} /\ Await({})
        /\ UNCHANGED <<draft, enabled, landed, restore, removed, saved, flushed, typed, edits, outages>>
    BY <1>11 DEF FlushBegins
  <2>2. Writing' = Writing \cup failed
    BY <2>1, <1>a DEF DraftTypeOK, Writing
  <2> QED
    BY <2>1, <2>2 DEF DraftTypeOK, Await, Writing
<1>12. CASE AskQuit \/ FlushTimesOut \/ FlushAnswered \/ BeforeUnload
  BY <1>12 DEF AskQuit, FlushTimesOut, FlushAnswered, BeforeUnload, requests, DraftTypeOK, Writing
<1>13. CASE UNCHANGED draftVars
  BY <1>13 DEF draftVars, DraftTypeOK, Writing
<1> QED
  BY <1>1, <1>2, <1>3, <1>4, <1>5, <1>6, <1>7, <1>8, <1>9, <1>10, <1>11, <1>12, <1>13
  DEF DraftNext

\* No step of the writes, the restores or the quit breaks it, where no chat is shown
\* unrestored.
LEMMA DraftStepInv ==
  ASSUME Unrestored = {}, DraftInv, [DraftNext]_draftVars
  PROVE  DraftInv'
<1> USE DEF DraftInv
<1>t. DraftTypeOK'
  BY DraftStepTypes
<1>a. Nothing \in Texts /\ NoDraft \notin Texts /\ Nothing # NoDraft
  BY DraftsAssumption DEF Texts, Nothing, NoDraft
<1>1. ASSUME NEW c \in Chats, NEW d \in Texts, Edit(c, d) PROVE DraftInv'
  <2>1. c \in enabled /\ QueueSave(c, d) /\ quit # "closed"
    BY <1>1 DEF Edit, WindowOpen
  <2>2. /\ draft' = [draft EXCEPT ![c] = d] /\ typed' = [typed EXCEPT ![c] = d]
        /\ UNCHANGED <<enabled, restore, removed, saved, quit, flushed, barrier, outages>>
        /\ edits < MaxEdits /\ edits' = edits + 1
    BY <1>1 DEF Edit, shell
  <2>3. DraftTypeOK'
    BY <1>t
  <2>4. BlankUntilRestored' /\ EditsSurvive'
    BY <2>1, <2>2 DEF BlankUntilRestored, EditsSurvive, DraftTypeOK
  <2>5. OnItsWay'
    BY <2>1, <2>2, QueueSaveIs DEF OnItsWay, DraftTypeOK
  <2>6. LandedIsSaved' /\ ClosedIsQuiet'
    BY <2>1, <2>2, QueueSaveIs DEF LandedIsSaved, ClosedIsQuiet
  <2> QED
    BY <2>3, <2>4, <2>5, <2>6
<1>2. ASSUME NEW c \in Chats, PutServed(c) PROVE DraftInv'
  BY <1>2 DEF PutServed, DraftTypeOK, BlankUntilRestored, EditsSurvive, OnItsWay,
     LandedIsSaved, ClosedIsQuiet, Writing, NewestDraft, shell
<1>3. ASSUME NEW c \in Chats, PutAnswered(c) PROVE DraftInv'
  <2>1. DraftTypeOK'
    BY <1>t
  <2>2. BlankUntilRestored' /\ EditsSurvive'
    BY <1>3 DEF PutAnswered, BlankUntilRestored, EditsSurvive
  <2>3. OnItsWay' /\ LandedIsSaved'
    BY <1>3 DEF PutAnswered, OnItsWay, LandedIsSaved, Writing, NewestDraft, DraftTypeOK
  <2>4. ClosedIsQuiet'
    BY <1>3 DEF PutAnswered, ClosedIsQuiet, Await, NotAwaited, WindowOpen
  <2> QED
    BY <2>1, <2>2, <2>3, <2>4
<1>4. ASSUME NEW c \in Chats, PutFails(c) PROVE DraftInv'
  <2>1. DraftTypeOK'
    BY <1>t
  <2>2. BlankUntilRestored' /\ EditsSurvive'
    BY <1>4 DEF PutFails, BlankUntilRestored, EditsSurvive
  <2>3. OnItsWay' /\ LandedIsSaved'
    BY <1>4 DEF PutFails, OnItsWay, LandedIsSaved, Writing, NewestDraft, DraftTypeOK
  <2>4. ClosedIsQuiet'
    BY <1>4 DEF PutFails, ClosedIsQuiet, Refused, NotAwaited, WindowOpen
  <2> QED
    BY <2>1, <2>2, <2>3, <2>4
<1>5. ASSUME NEW c \in Chats, Retry(c) PROVE DraftInv'
  <2>1. /\ draft[c] \in Texts /\ QueueSave(c, draft[c]) /\ quit # "closed" /\ c \in enabled
        /\ UNCHANGED <<draft, enabled, restore, removed, saved, quit, flushed, barrier, typed,
                       edits, outages>>
    BY <1>5 DEF Retry, shell, DraftTypeOK, WindowOpen
  <2>2. DraftTypeOK'
    BY <1>t
  <2>3. OnItsWay'
    BY <2>1, QueueSaveIs DEF OnItsWay, EditsSurvive
  <2>4. BlankUntilRestored' /\ EditsSurvive' /\ LandedIsSaved' /\ ClosedIsQuiet'
    BY <2>1, QueueSaveIs DEF BlankUntilRestored, EditsSurvive, LandedIsSaved, ClosedIsQuiet
  <2> QED
    BY <2>2, <2>3, <2>4
<1>6. ASSUME NEW c \in Chats, RemoveChat(c) PROVE DraftInv'
  <2>1. DraftTypeOK'
    BY <1>t
  <2>2. BlankUntilRestored' /\ EditsSurvive'
    BY <1>6 DEF RemoveChat, BlankUntilRestored, EditsSurvive, DraftTypeOK
  <2>3. OnItsWay' /\ LandedIsSaved'
    BY <1>6 DEF RemoveChat, OnItsWay, LandedIsSaved, Writing, NewestDraft, DraftTypeOK
  <2>4. ClosedIsQuiet'
    BY <1>6 DEF RemoveChat, ClosedIsQuiet, Await, NotAwaited, Refused, WindowOpen
  <2> QED
    BY <2>1, <2>2, <2>3, <2>4
<1>7. ASSUME NEW r \in Restores, NEW c \in Chats, RestoreAsked(r, c) PROVE DraftInv'
  BY <1>7, <1>a DEF RestoreAsked, requests, shell, DraftTypeOK, BlankUntilRestored, EditsSurvive,
     OnItsWay, LandedIsSaved, ClosedIsQuiet, Writing, NewestDraft
<1>8. ASSUME NEW r \in Restores, RestoreServed(r) PROVE DraftInv'
  <2>1. /\ UNCHANGED <<draft, enabled, queued, sent, landed, failed, removed, saved, quit,
                       flushed, barrier, typed, edits, outages>>
        /\ restore[r] \in [at : {"asked", "read"}, of : Chats, before : Texts, read : Texts]
        /\ restore' = [restore EXCEPT ![r].at = "read", ![r].read = saved[restore[r].of]]
    BY <1>8 DEF RestoreServed, requests, shell, DraftTypeOK, NoRestore
  <2>2. DraftTypeOK'
    BY <1>t
  <2>3. BlankUntilRestored'
    BY <2>1 DEF BlankUntilRestored, DraftTypeOK
  <2>4. EditsSurvive' /\ OnItsWay' /\ LandedIsSaved' /\ ClosedIsQuiet'
    BY <2>1 DEF EditsSurvive, OnItsWay, LandedIsSaved, ClosedIsQuiet, Writing, NewestDraft
  <2> QED
    BY <2>2, <2>3, <2>4
<1>9. ASSUME NEW r \in Restores, RestoreFails(r) PROVE DraftInv'
  BY <1>9, DraftsAssumption DEF RestoreFails, requests, shell, DraftTypeOK, BlankUntilRestored,
     EditsSurvive, OnItsWay, LandedIsSaved, ClosedIsQuiet, Writing, NewestDraft, NoRestore
<1>10. ASSUME NEW r \in Restores, RestoreAnswered(r) PROVE DraftInv'
  <2> DEFINE c == restore[r].of
  <2>1. /\ c \in Chats /\ restore[r].read \in Texts /\ restore[r].before = Nothing
        /\ draft[c] \in Texts /\ quit # "closed"
        /\ restore' = [restore EXCEPT ![r] = NoRestore]
        /\ UNCHANGED <<removed, saved, quit, flushed, barrier, typed, edits, outages>>
    BY <1>10 DEF RestoreAnswered, shell, DraftTypeOK, BlankUntilRestored, NoRestore, WindowOpen
  <2>2. /\ \A x \in Restores : restore'[x] = restore[x] \/ restore'[x].at = "none"
        /\ restore' \in [Restores -> {NoRestore} \cup
                          [at : {"asked", "read"}, of : Chats, before : Texts, read : Texts]]
    BY <2>1 DEF DraftTypeOK, NoRestore
  <2>3. CASE UNCHANGED <<draft, enabled, requests>>
    BY <2>1, <2>2, <2>3 DEF requests, DraftTypeOK, BlankUntilRestored, EditsSurvive, OnItsWay,
       LandedIsSaved, ClosedIsQuiet, Writing, NewestDraft
  <2>4. CASE /\ enabled' = enabled \cup {c} /\ draft[c] = Nothing
             /\ draft' = [draft EXCEPT ![c] = restore[r].read] /\ UNCHANGED requests
    <3>1. typed[c] = Nothing
      BY <2>1, <2>4 DEF EditsSurvive
    <3> QED
      BY <2>1, <2>2, <2>4, <3>1 DEF requests, DraftTypeOK, BlankUntilRestored, EditsSurvive,
         OnItsWay, LandedIsSaved, ClosedIsQuiet, Writing, NewestDraft
  <2>5. CASE enabled' = enabled \cup {c} /\ QueueSave(c, draft[c]) /\ UNCHANGED draft
    <3>1. DraftTypeOK'
      BY <1>t
    <3>2. OnItsWay'
      BY <2>1, <2>5, QueueSaveIs DEF OnItsWay, EditsSurvive
    <3>3. BlankUntilRestored' /\ EditsSurvive'
      BY <2>1, <2>2, <2>5 DEF BlankUntilRestored, EditsSurvive
    <3>4. LandedIsSaved' /\ ClosedIsQuiet'
      BY <2>1, <2>5, QueueSaveIs DEF LandedIsSaved, ClosedIsQuiet
    <3> QED
      BY <3>1, <3>2, <3>3, <3>4
  <2> QED
    BY <1>10, <2>1, <2>3, <2>4, <2>5 DEF RestoreAnswered
<1>11. CASE FlushBegins
  <2>1. /\ sent' = [c \in Chats |-> IF c \in failed THEN draft[c] ELSE sent[c]]
        /\ queued' = [c \in Chats |-> IF c \in failed THEN NoDraft ELSE queued[c]]
        /\ failed' = {} /\ quit = "asked" /\ Await({})
        /\ UNCHANGED <<draft, enabled, landed, restore, removed, saved, flushed, typed, edits, outages>>
    BY <1>11 DEF FlushBegins
  <2>2. Writing' = Writing \cup failed
    BY <2>1, <1>a DEF DraftTypeOK, Writing
  <2>3. DraftTypeOK'
    BY <1>t
  <2>4. OnItsWay' /\ LandedIsSaved'
    BY <2>1, <2>2 DEF OnItsWay, LandedIsSaved, DraftTypeOK, EditsSurvive, NewestDraft
  <2>5. BlankUntilRestored' /\ EditsSurvive' /\ ClosedIsQuiet'
    BY <2>1 DEF BlankUntilRestored, EditsSurvive, ClosedIsQuiet, Await
  <2> QED
    BY <2>3, <2>4, <2>5
<1>12. CASE AskQuit \/ FlushTimesOut \/ FlushAnswered \/ BeforeUnload
  BY <1>12 DEF AskQuit, FlushTimesOut, FlushAnswered, BeforeUnload, requests, DraftTypeOK,
     BlankUntilRestored, EditsSurvive, OnItsWay, LandedIsSaved, ClosedIsQuiet, Writing, NewestDraft
<1>13. CASE UNCHANGED draftVars
  BY <1>13 DEF draftVars, DraftTypeOK, BlankUntilRestored, EditsSurvive, OnItsWay,
     LandedIsSaved, ClosedIsQuiet, Writing, NewestDraft
<1> QED
  BY <1>1, <1>2, <1>3, <1>4, <1>5, <1>6, <1>7, <1>8, <1>9, <1>10, <1>11, <1>12, <1>13
  DEF DraftNext

\* What the user typed stays in the composer, whatever answers come late, where every
\* chat was restored before it is shown.
THEOREM TypedStays ==
  ASSUME Unrestored = {}
  PROVE  DraftSpec => []EditsSurvive
<1>1. DraftInv => EditsSurvive
  BY DEF DraftInv
<1>2. DraftInv /\ [DraftNext]_draftVars => DraftInv'
  BY DraftStepInv
<1> QED
  BY <1>1, <1>2, DraftInitInv, PTL DEF DraftSpec

\* The window closes only over saved text, in whatever order saves fail, are retried and
\* answered while it is quitting.
THEOREM ClosesOverSavedText ==
  ASSUME Unrestored = {}
  PROVE  DraftSpec => []QuitLosesNothing
<1>1. DraftInv => QuitLosesNothing
  BY DEF DraftInv, QuitLosesNothing, ClosedIsQuiet, OnItsWay
<1>2. DraftInv /\ [DraftNext]_draftVars => DraftInv'
  BY DraftStepInv
<1> QED
  BY <1>1, <1>2, DraftInitInv, PTL DEF DraftSpec

-----------------------------------------------------------------------------
(* Both parts.                                                             *)

\* However the renderer begins, with a session that is live or a draft, or with the drafts
\* alone, both parts are well typed.
LEMMA RendererStartsTyped == RendererInit => TypeInv /\ DraftTypeOK
<1> SUFFICES ASSUME RendererInit PROVE TypeInv /\ DraftTypeOK
  OBVIOUS
<1>1. DraftTypeOK
  BY DraftInitInv DEF RendererInit, DraftInv
<1>2. CASE Init
  BY <1>1, <1>2, InitTypes
<1>3. CASE MixedInit
  <2>1. PICK fresh \in BOOLEAN : Begin(fresh) /\ launched = 1
    BY <1>3 DEF MixedInit
  <2>2. QED
    BY <1>1, <2>1, BeginTypes, Bounds
<1>4. QED
  BY <1>2, <1>3 DEF RendererInit

LEMMA RendererStepTypes ==
  ASSUME TypeInv, DraftTypeOK, [RendererNext]_<<part, vars, draftVars>>
  PROVE  TypeInv' /\ DraftTypeOK'
<1>1. [Next]_vars /\ [DraftNext]_draftVars
  BY DEF RendererNext
<1>2. QED
  BY <1>1, StepTypes, DraftStepTypes

\* Both parts of a renderer stay well typed: the followed session, from either of its
\* beginnings, and the writes, restores and quit of the drafts: a write under way belongs
\* to a restored chat, a failed one is not under way, and a quit waits exactly as long as a
\* write it awaits is under way (composerDrafts of the store, flushAllComposerDrafts).
THEOREM BothPartsTyped == RendererSpec => []RendererTypeOK
<1>1. TypeInv /\ DraftTypeOK => RendererTypeOK
  BY TypesHold DEF RendererTypeOK
<1>2. TypeInv /\ DraftTypeOK /\ [RendererNext]_<<part, vars, draftVars>>
        => (TypeInv /\ DraftTypeOK)'
  BY RendererStepTypes
<1> QED
  BY <1>1, <1>2, RendererStartsTyped, PTL DEF RendererSpec
=============================================================================
