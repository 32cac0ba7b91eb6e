------------------------------ MODULE MCMachine ------------------------------
(***************************************************************************)
(* A bare machine and two cartridges, one with two banks of RAM and one    *)
(* with one, which the header of a state does not tell apart.              *)
(***************************************************************************)
EXTENDS Machine

MCCarts == {"none", "ram2", "ram1"}

MCHeader ==
    [c \in MCCarts |-> IF c = "none" THEN [mapper |-> "none", rom |-> 0]
                                     ELSE [mapper |-> "mbc", rom |-> 4]]

MCLayout ==
    [c \in MCCarts |-> <<"cpu", "bus">> \o
                       CASE c = "none" -> <<>>
                         [] c = "ram2" -> <<"ram", "more", "banks">>
                         [] c = "ram1" -> <<"ram", "banks">>]

MCEmpty == [header |-> [mapper |-> "none", rom |-> 1], body |-> <<>>]
============================================================================
