------------------------------ MODULE MCFieldServer ------------------------------
(* Two values to read, two setpoints to write, one of them through either of two windows,
   and requests that hit a window, half of one, all of them, or carry what is no number. *)
EXTENDS FieldServer

MCConfig == [reads |-> <<[address |-> 0, device |-> "d1"], [address |-> 2, device |-> "d2"]>>,
             writes |-> <<[address |-> 6, device |-> "d2"], [address |-> 4, device |-> "d1"],
                         [address |-> 8, device |-> "d1"]>>]

MCReports == {[d1 |-> "valid", d2 |-> "valid"], [d1 |-> "invalid"], <<>>}

MCRequests == {[address |-> 4, words |-> <<0, 2, 0, 1, 0, 3>>], [address |-> 5, words |-> <<2, 0>>],
               [address |-> 6, words |-> <<2, 0>>]}
==================================================================================
