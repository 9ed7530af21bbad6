---------------------------- MODULE MCEventStream ----------------------------
(* Two parts of a renderer that share no state, checked in one run: it follows a   *)
(* session (EventStream) and keeps unsent messages (ComposerDrafts).  A behaviour  *)
(* is one part's; the other stays as it begins.                                    *)
EXTENDS EventStream, ComposerDrafts

VARIABLE part

\* A session in both its beginnings: a created one whose renderer may lose its socket,
\* and a draft, of one launch less, that the user may reopen, but whose renderer keeps
\* its socket (what a drop does to it is MCEventStreamGap).
MixedInit ==
  \/ Begin(FALSE) /\ launched = 1 /\ drops = 0 /\ activations = MaxActivations
  \/ Begin(TRUE) /\ launched = 1 /\ drops = MaxDrops /\ activations = 0

RendererInit ==
  /\ part \in {"stream", "drafts"}
  /\ IF part = "stream" THEN MixedInit ELSE Init
  /\ DraftInit
  /\ part = "stream" => saved = [c \in Chats |-> Nothing]

RendererNext ==
  /\ UNCHANGED part
  /\ \/ part = "stream" /\ Next /\ UNCHANGED draftVars
     \/ part = "drafts" /\ DraftNext /\ UNCHANGED vars

RendererSpec == RendererInit /\ [][RendererNext]_<<part, vars, draftVars>>

\* Types of both parts.
RendererTypeOK == TypeOK /\ DraftTypeOK
=============================================================================
