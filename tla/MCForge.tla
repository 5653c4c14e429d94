------------------------------ MODULE MCForge ------------------------------
(* The orchestrator on a board and a rootfs profile: the configurations pick
   the board, the commands and what is edited. *)
EXTENDS Claims

CONSTANTS
  Board, Profile,
  LeafSteps,     \* the steps whose leaf commands the instance has,
  LeafProfiles   \* and the profiles their trees are staged from

G == Graph(Board, Profile)

MCNeeds == NeedsOf(Board, Profile)
MCSteps == DOMAIN G
MCNames == NamesOf(G)
MCLeaves ==
  [s \in MCSteps |->
     {t \in LeafTables(Board, Profile, s) :
        s \in LeafSteps /\ t["rootfs"] \in {TreeNeeds(p) : p \in LeafProfiles}}]
MCSources == SourcesOf(G, MCNeeds, {MCNeeds} \cup UNION {MCLeaves[s] : s \in MCSteps})
MCOutputs == DOMAIN MCNeeds
MCName == NameOf(G)
MCListed == ListedOf(G)
MCWrites == WritesOf(G)
MCOutDir == OutDirOf(MCNeeds) \cap (MCSources \cup MCOutputs)
MCBuilt == BuiltBy(Profile) \cap MCSources
MCOpaque == OpaqueDirs \cap (MCSources \cup MCOutputs)

\* The command sets of the runs.
PackOnly == {Pack(Board)}
PackThenAssemble == {Pack(Board), AssembleSteps(Board, "provision")}
PackOrAll == {Pack(Board), AllSteps(Board, "provision")}
EveryVariant == {AllSteps(Board, "provision"), AssembleSteps(Board, "nand"),
                 AssembleSteps(Board, "rescue")}
SdCard == {PackSdSteps(Board), AssembleSteps(Board, "sd")}
=============================================================================
