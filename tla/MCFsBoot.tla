------------------------------ MODULE MCFsBoot ------------------------------
\* A plain partition, an empty entry, and an extended one with the root device
\* and another partition in it; two files in cmd.tar.
EXTENDS Untar
MCLayout == <<[kind |-> "plain", base |-> 1, size |-> 2, subs |-> <<>>],
              [kind |-> "none", base |-> 0, size |-> 0, subs |-> <<>>],
              [kind |-> "extended", base |-> 3, size |-> 20,
               subs |-> <<[table |-> 3, base |-> 4, size |-> 17],
                          [table |-> 21, base |-> 22, size |-> 1]>>]>>
MCTar == <<"a", "b">>

MCRequest(type, dev, pos, cnt) ==
  [type |-> type, dev |-> dev, pos |-> pos, cnt |-> cnt, data |-> {<<"x">>}]
MCFiles == {MCRequest("DEV_WRITE", 20, 16, 1), MCRequest("DEV_READ", 20, 16, 1),
            MCRequest("DEV_WRITE", 1, 0, 2), MCRequest("DEV_READ", 1, 0, 2),
            MCRequest("DEV_READ", 21, 0, 1), MCRequest("DEV_OPEN", 20, 0, 0)}

MCIdentity == {<<"id">>}
=============================================================================
