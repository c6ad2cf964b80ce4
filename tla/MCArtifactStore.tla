-------------------------- MODULE MCArtifactStore --------------------------
(* Instances of ArtifactStore small enough for TLC. *)
EXTENDS ArtifactStore, TLC

CONSTANTS a1, a2, a3, a4, w1, w2, c1, c2,
          promote1, promote2, cleanup1, cleanup2, delete1, delete2

\* a1 is temporary, a2, a3 and a4 are final; a1 and a2 have the same bytes.
TargetsOneSpace == promote1 :> a2 @@ promote2 :> a2
SpacesOneSpace  == cleanup1 :> w1 @@ cleanup2 :> w1
ContentOneSpace == a1 :> c1 @@ a2 :> c1 @@ a3 :> c2
SpaceOneSpace   == a1 :> w1 @@ a2 :> w1 @@ a3 :> w1
BornOneSpace    == a1 :> "workspace" @@ a2 :> "workspace" @@ a3 :> "validated"

\* a1 and a2 are in one workspace, a3 is uploaded to the other, a4 has none.
TargetsTwoSpaces == promote1 :> a2 @@ delete1 :> a4 @@ delete2 :> a2
SpacesTwoSpaces  == cleanup1 :> w1 @@ cleanup2 :> w2
ContentTwoSpaces == a1 :> c1 @@ a2 :> c1 @@ a3 :> c1 @@ a4 :> c1
SpaceTwoSpaces   == a1 :> w1 @@ a2 :> w1 @@ a3 :> w2 @@ a4 :> None
BornTwoSpaces    == a1 :> "workspace" @@ a2 :> "workspace" @@ a3 :> "workspace" @@ a4 :> "plain"

\* Small cases: the bytes of a2 are also temporary ones of the other workspace;
\* a3 is uploaded while the artifact with its bytes is deleted.
TargetsCrossed  == promote1 :> a2
SpacesCrossed   == cleanup1 :> w2
ContentCrossed  == a1 :> c1 @@ a2 :> c1
BornCrossed     == a1 :> "workspace" @@ a2 :> "workspace"
SpaceCrossed    == a1 :> w2 @@ a2 :> w1
TargetsUpload   == delete1 :> a1
ContentUpload   == a1 :> c1 @@ a3 :> c1
BornUpload      == a1 :> "workspace" @@ a3 :> "workspace"
SpaceUpload     == a1 :> w1 @@ a3 :> w1
NoSpaces        == <<>>
=============================================================================
