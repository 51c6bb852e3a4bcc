------------------------- MODULE MC_ProfileSelector -------------------------
(***************************************************************************)
(* Bounded inputs for ProfileSelector.  Two profile handles are the least *)
(* that exercise handle order; two contacts per registration exercise the  *)
(* inner loop.  The contact uris cover a host mismatch, an absent          *)
(* rinstance and two different rinstances; the profiles cover two AOR      *)
(* spellings that differ only in case and two media addresses.            *)
(* The request's To AOR matches one, the other, or no profile.            *)
(***************************************************************************)
EXTENDS ProfileSelector

CONSTANTS h1, h2, r1, r2, n1, n2, n3, m1, m2

MC_Hosts == {h1, h2}
MC_Rinstances == {r1, r2}
MC_Names == {n1, n2, n3}
MC_MediaAddresses == {m1, m2}

MC_ContactUris ==
    { [host |-> h1, rinstance |-> r1],
      [host |-> h1, rinstance |-> r2],
      [host |-> h1, rinstance |-> NoRinstance],
      [host |-> h2, rinstance |-> r1] }

MC_ProfileValues ==
    { [defaultFrom |-> [name |-> n1, upper |-> FALSE], mediaAddress |-> m1],
      [defaultFrom |-> [name |-> n1, upper |-> TRUE],  mediaAddress |-> m2],
      [defaultFrom |-> [name |-> n2, upper |-> FALSE], mediaAddress |-> m1] }

\* An upper-case spelling of n1, n2, and a name no profile has.
MC_ToAors ==
    { [name |-> n1, upper |-> TRUE],
      [name |-> n2, upper |-> FALSE],
      [name |-> n3, upper |-> FALSE] }
=============================================================================
