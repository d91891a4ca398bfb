--------------------------------- MODULE MCClips ---------------------------------
(* Beside the components of ClipParts, the edits of a task's clips and the       *)
(* computations of the clip pipeline on bounded inputs.                          *)
EXTENDS ClipParts, MCClipMaking, TLAPS

CONSTANTS Ids, MaxEdits

VARIABLES clips, files, toDelete, edits

parts == <<part, drafts, editorExports, aiEdits, replicas, generation, accounts, sourceCache,
           download, workspace, stream>>
clipEdits == <<clips, files, toDelete, edits>>

K == INSTANCE ClipEdits

ClipsInit ==
    /\ Init
    /\ IF part = "computation" THEN Chosen ELSE NoInput
    /\ IF part = "clips" THEN K!Init ELSE K!Gone

ClipsNext ==
    \/ part = "computation" /\ NextComputation /\ UNCHANGED <<parts, clipEdits>>
    \/ part = "clips" /\ K!Next /\ UNCHANGED <<parts, computation>>
    \/ Next /\ UNCHANGED <<computation, clipEdits>>

ClipsSpec == ClipsInit /\ [][ClipsNext]_<<parts, computation, clipEdits>>

ClipsStayTrue == part = "clips" => K!ClipsStayTrue
\* No edit, save or copy takes away what a newer or another one put there, and no
\* answer that comes late brings back an account.
NothingIsLost == K!OrderKept /\ D!SavesAreKept /\ R!NeverOverwritesNewer /\ S!OnlySignInReconnects

-----------------------------------------------------------------------------
\* On the variables of ClipParts, a behaviour beside the edits and computations is one of
\* ClipParts: what is proved of its specification holds here.
THEOREM PartsAreClipParts == ClipsSpec => Spec
<1>1. ClipsInit => Init
  BY DEF ClipsInit
<1>2. [ClipsNext]_<<parts, computation, clipEdits>>
      => [Next]_<<part, drafts, editorExports, aiEdits, replicas,
                  generation, accounts, sourceCache, download, workspace, stream>>
  BY DEF ClipsNext, parts
<1> QED
  BY <1>1, <1>2, PTL DEF ClipsSpec, Spec
=============================================================================
