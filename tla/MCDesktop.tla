----------------------------- MODULE MCDesktop -----------------------------
(***************************************************************************)
(* The two halves of the desktop configuration: the draft with its         *)
(* revisions, its file and its sidecar, whatever it says, and what it says *)
(* of one provider name, with the bin, the key and the caches of that      *)
(* name, whatever its revision is.  Neither decides by the other's state,  *)
(* so a behaviour is one of one of them: subject says which.               *)
(***************************************************************************)
EXTENDS MCConfig, ProviderLifecycle, TLC

CONSTANTS k1, k2, a1, a2

MCKeys == {k1, k2}
MCApiKeys == {a1, a2}

\* Keys differ in nothing, in either half.
SameKeys == Permutations(MCKeys) \union Permutations(MCApiKeys)

VARIABLE subject

\* A name that nothing has yet does as one of ours all that another could.
DesktopInit ==
    /\ subject \in {"draft", "provider"} /\ Init /\ LifeInit
    /\ onDisk = Nothing => modern
    /\ subject = "draft" => onDisk = Nothing

DesktopNext ==
    /\ UNCHANGED subject
    /\ \/ subject = "draft" /\ Next /\ UNCHANGED lifeVars
       \/ subject = "provider" /\ LifeNext /\ UNCHANGED vars

DesktopSpec == DesktopInit /\ [][DesktopNext]_<<subject, vars, lifeVars>>
=============================================================================
