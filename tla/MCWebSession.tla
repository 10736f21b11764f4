---------------------------- MODULE MCWebSession ----------------------------
(* Instance of WebSession for TLC: a Google login with the configured address,
   a dev login of ann and a login with ann's address not verified.  Two
   requests, which no definition tells apart. *)
EXTENDS WebSession, TLC

RequestSymmetry == Permutations(Requests)

MCEmails == {"Root", "root", "ann"}
MCLower == [e \in MCEmails |-> IF e = "Root" THEN "root" ELSE e]
MCRootEmails == {"Root"}
MCLogins ==
    {[subject |-> "g1", email |-> "root", verified |-> TRUE, role |-> "any"],
     [subject |-> "d1", email |-> "ann", verified |-> TRUE, role |-> "designer"],
     [subject |-> "u1", email |-> "ann", verified |-> FALSE, role |-> "any"]}
=============================================================================
