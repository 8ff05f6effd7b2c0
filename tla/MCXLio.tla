------------------------------- MODULE MCXLio -------------------------------
(***************************************************************************)
(* Transfers of XLio for TLC.                                              *)
(***************************************************************************)
EXTENDS XLio

D == [dir |-> TRUE, size |-> 0]
F(n) == [dir |-> FALSE, size |-> n]

Transfer(put, single, tree, have, refuse) ==
  [put |-> put, single |-> single, tree |-> tree, have |-> have, refuse |-> refuse,
   timeouts |-> {}, first |-> {}, when |-> {}]

\* A file that is sent, with timeouts of both ends.
Broken(size, first, when) ==
  [Transfer(TRUE, TRUE, <<F(size)>>, {}, {}) EXCEPT
     !.timeouts = Ends, !.first = first, !.when = when]

\* The uploader of Broken says REQ, RES_LIST, the parts of the file (two units in
\* each) and the end of the list: the file of 3 units is cut by the downloader
\* between its two parts, that of 1 unit by the uploader after its list has come
\* in and before its part has.
Transfers ==
  { Transfer(FALSE, TRUE, <<F(5)>>, {}, {}),
    Transfer(TRUE, FALSE, <<D, F(2), F(3)>>, {2}, {}),
    Transfer(FALSE, FALSE, <<D, F(2)>>, {}, {}),
    Transfer(FALSE, FALSE, <<F(1), F(0), F(1)>>, {}, {}),
    Transfer(TRUE, TRUE, <<F(1)>>, {}, Ends),
    Transfer(FALSE, TRUE, <<F(1)>>, {}, {Up}),
    Broken(0, Ends, 0..3),
    Broken(3, {Down}, {3}),
    Broken(1, {Up}, {2}) }
=============================================================================
