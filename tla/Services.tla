------------------------------- MODULE Services -------------------------------
(***************************************************************************)
(* What a user relies on who has many ModelServices: their children are    *)
(* named apart, and generate shows what the cluster ends up with.          *)
(***************************************************************************)
EXTENDS ModelServiceProperties, Generate, ChildNames

\* Two ModelServices, whatever they are called, never name children of one kind alike,
\* and none names two of its own alike, but for the exceptions of Apart (deploymentName,
\* sanitizeSvcName, ..., sanitizeName).  It matters once there is a ModelService.
NamesApart == (\E m \in ModelServices : msvc[m].phase # "absent") => Apart

\* The file with what the base ConfigMap holds that the spec refers to.
FileOf(spec, b) == IF spec.baseConfigMapRef THEN b ELSE NotGiven

\* The field of a child that exists may differ from the printed one: the replica count
\* where scaling is decoupled, and what a pointer to zero does not replace.
LeftToOthers(spec, s, f, value, live) ==
    \/ spec.decoupleScaling /\ s \in PDDeployments /\ f = "replicas"
    \/ value = Zero /\ live # Unset

\* Once the controller has nothing left to do for a ModelService, generate prints every
\* child it wants, and every field that is printed has the printed value in the cluster,
\* but for what is left to others and ConfigMaps of another namespace, of whose changes
\* the controller learns nothing (generateManifests, genericCreateOrUpdate).
PreviewAgrees ==
    \A c \in Controllers, m \in ModelServices :
        Settled(c, m) =>
            LET spec == msvc[m].spec
                b == usedBase[c][m]
                printed == generateManifests(spec, FileOf(spec, b))
            IN  /\ printed \notin {Failed, Panic}
                /\ \A s \in SlotsOf(Wanted(spec, b)) :
                     /\ printed[s] # NoChild
                     /\ Owned(spec, b, s) => \A f \in Fields :
                          LET live == objs[ObjectOf[m][s]].data[f] IN
                          printed[s][f] # Unset =>
                            live = printed[s][f] \/ LeftToOthers(spec, s, f, printed[s][f], live)
===============================================================================
