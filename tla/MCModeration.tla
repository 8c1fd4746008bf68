---------------------------- MODULE MCModeration ----------------------------
EXTENDS Moderation, TLC

CONSTANTS i1, i2, r1, r2, e1, e2, p1, u1, u2

(* u1 imports the content, reports it and corrects it; u2, a moderator,    *)
(* reports it too; the second import is anonymous.                         *)
MCAuthor ==
    i1 :> u1 @@ i2 :> NoUser @@ r1 :> u1 @@ r2 :> u2
    @@ e1 :> u1 @@ e2 :> u1 @@ p1 :> u1

MCSubmitted == {{}, {i1, i2, r1, p1}, {e1, e2}}

MCSymmetry == Permutations(Sessions) \cup Permutations(Edits)
=============================================================================
