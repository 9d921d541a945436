----------------------------- MODULE MCRmalloc ------------------------------
(* Rmalloc for TLC: three pages of ten bytes, headers of three.  A region  *)
(* of one page has seven bytes: 2 leaves a remainder smaller than a        *)
(* header, 5 leaves no room for one, and 7 takes two pages.                *)
EXTENDS Rmalloc
=============================================================================
