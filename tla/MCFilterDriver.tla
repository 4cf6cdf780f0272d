--------------------------- MODULE MCFilterDriver ---------------------------
(* An instance of FilterDriver for TLC: a supported Intel adapter, a team  *)
(* of such adapters and a virtual one whose name cannot be read.           *)
EXTENDS FilterDriver

SomeOffers ==
  {[name |-> {"INTEL", "I226"}, readable |-> TRUE, medium |-> "802_3"],
   [name |-> {"INTEL", "I210", "TEAM"}, readable |-> TRUE, medium |-> "802_3"],
   [name |-> {"VIRTUAL"}, readable |-> FALSE, medium |-> "Other"]}
=============================================================================
