------------------------------ MODULE MCOamDma ------------------------------
(***************************************************************************)
(* OamDma with one page on each bus and a transfer of a few bytes, so that *)
(* a restart finds the transfer before it not begun, half done or done.    *)
(***************************************************************************)
EXTENDS OamDma

CONSTANTS e, v, open, other     \* model values: pages and bytes
============================================================================
