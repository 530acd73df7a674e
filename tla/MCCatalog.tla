----------------------------- MODULE MCCatalog -----------------------------
(***************************************************************************)
(* Instances of Catalog for TLC.                                           *)
(***************************************************************************)
EXTENDS Catalog

CONSTANTS awk, gawk, r

\* perl: the tarball of cpan.org, then the overlay of github.com, whose URL is
\* first in text order.
Perl == [key |-> 1, ver |-> 1, dests |-> <<gawk, awk>>, urls |-> <<2, 1>>]

\* A catalog without versions, and one with a version the script names or not.
MCSeeds ==
  {[vers |-> <<>>, srcs |-> <<>>]}
    \cup {[vers |-> <<<<1, v>>>>, srcs |-> <<<<1, 2>>>>] : v \in Vers}
=============================================================================
