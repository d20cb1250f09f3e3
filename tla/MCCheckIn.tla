----------------------------- MODULE MCCheckIn -----------------------------
(***************************************************************************)
(* A finite instance of CheckIn for TLC: one user, one gateway that moves  *)
(* to another facility with another key (and back); one attestation of the *)
(* old place and key and one of the new place with the old key; two forms  *)
(* of one moment, signed before and after the move.  Visits are symmetric. *)
(***************************************************************************)
EXTENDS CheckIn, AttendancePolicy, TLC

CONSTANTS u1, f1, f2, l1, n1, n2, p1, p2

MCRegistrations == {[lan |-> l1, key |-> "k1", facility |-> f1],
                    [lan |-> l1, key |-> "k2", facility |-> f2]}

Attested(u, f, key, nonce, at) ==
  [sub |-> u, place |-> f, lan |-> l1, key |-> key, nonce |-> nonce, issuedAt |-> at,
   purpose |-> "attendance", method |-> "passkey", assurance |-> "medium"]

MCAttestations == {Attested(u1, f1, "k1", n1, 0), Attested(u1, f2, "k1", n2, 0)}

Form(f, key, p) ==
  [statement |-> [lan |-> l1, key |-> key, facility |-> f, radius |-> 1,
                  issuedAt |-> 0, purpose |-> "location"],
   accuracy |-> 1, distance |-> 2, positionAt |-> 1, photo |-> p,
   takenAt |-> 1, exifDistance |-> None]

MCSubmissions == {Form(f1, "k1", p1), Form(f2, "k2", p2)}

CheckInSymmetry == Permutations(Visits)
============================================================================
