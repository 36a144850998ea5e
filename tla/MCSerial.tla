------------------------------ MODULE MCSerial ------------------------------
(* All strings "<rate> <mode>" of the tables, or some of them.              *)
EXTENDS Serial

Written(rates, modes) ==
  {BaudTable[i].str \o <<" ">> \o ModeTable[j].str : i \in rates, j \in modes}

\* One object, every rate that has a constant Bxxx, every mode.
MCAll == Written((1..10) \ {5, 7}, 1..24)

\* Two objects, "9600 N81" and "115200 7E1".
MCSome == Written({4}, {1}) \union Written({10}, {17})

\* The rates without a constant.
MCOdd == Written({5, 7}, {1})

MCOne == Written({10}, {1})
=============================================================================
