----------------------------- MODULE MCDocumentScan -----------------------------
(***************************************************************************)
(* Documents for TLC: two passports without a 7, one of a holder whose     *)
(* name ends in I and whose birthday is still to come, one full of sevens, *)
(* one of a centenarian, and two cards, one with the check digit 7.        *)
(***************************************************************************)
EXTENDS DocumentScan

CONSTANTS c1, c2, w1, w2, w3, erik, lili, ana, otto, paul, paula

MCCaller == {c1, c2}
MCWorker == {w1, w2, w3}
MCDocument == {erik, lili, ana, otto, paul, paula}
MCToday == <<2026, 3, 15>>

MCNoise ==
    [number |-> <<"R", "E", "P", "U", "B", "L", "I", "C", "O">>, numberCheck |-> "F",
     dob |-> <<"P", "A", "S", "S", "P", "O">>, dobCheck |-> "R",
     expiry |-> <<"2", "0", "3", "1", "0", "1">>, expiryCheck |-> "<",
     name |-> <<"X">>, composite |-> "<"]

Doc(format, number, born, expires, name) ==
    [format |-> format, number |-> number, born |-> born,
     expires |-> expires, name |-> name]

MCData == [d \in MCDocument |->
    CASE d = erik -> Doc("TD3", <<"L", "8", "9", "8", "9", "0", "2", "C", "3">>,
         <<1969, 8, 6>>, <<2034, 4, 15>>, <<"E", "R", "I", "K">>)
      [] d = lili -> Doc("TD3", <<"B", "0", "1", "5", "S", "O", "2", "Z", "<">>,
         <<2004, 2, 8>>, <<2031, 10, 30>>, <<"L", "I", "L", "I">>)
      [] d = ana -> Doc("TD3", <<"C", "1", "2", "3", "4", "5", "6", "8", "9">>,
         <<1977, 7, 17>>, <<2027, 11, 27>>, <<"A", "N", "A">>)
      [] d = otto -> Doc("TD3", <<"X", "4", "0", "8", "1", "2", "8", "8", "<">>,
         <<1925, 5, 1>>, <<2029, 1, 2>>, <<"O", "T", "T", "O">>)
      [] d = paul -> Doc("TD1", <<"D", "2", "3", "1", "4", "5", "8", "9", "0">>,
         <<1984, 12, 20>>, <<2030, 6, 9>>, <<"P", "A", "U", "L">>)
      [] d = paula -> Doc("TD1", <<"E", "2", "3", "1", "4", "5", "8", "9", "0">>,
         <<1990, 3, 31>>, <<2032, 2, 29>>, <<"P", "A", "U", "L">>)]

MCConfused == [c \in Char |->
    CASE c = "0" -> {"O", "D", "8"} [] c = "O" -> {"0"} [] c = "1" -> {"I", "7"}
      [] c = "2" -> {"Z"} [] c = "Z" -> {"2"} [] c = "3" -> {"8"}
      [] c = "4" -> {"A"} [] c = "5" -> {"S", "6"} [] c = "S" -> {"5"}
      [] c = "6" -> {"G", "8"} [] c = "8" -> {"B", "3"} [] c = "B" -> {"8"}
      [] c = "C" -> {"<"} [] c = "L" -> {"1"} [] c = "<" -> {"L"} [] OTHER -> {}]
================================================================================
