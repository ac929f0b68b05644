------------------------------ MODULE MCStore -------------------------------
(* Instance of the shared store file system: the farm is a directory of the *)
(* store, as the prisons' is; it has a link to the store path p, written the *)
(* hard way, and one back to itself; p is a file, another or a directory.    *)
EXTENDS StoreProperties, TLC

Store == <<"nix", "store">>
Farm == <<"nix", "store", "farm">>

File(ver) == [type |-> "file", ver |-> ver]
Link(to) == [type |-> "link", abs |-> FALSE, to |-> to]
AbsLink(to) == [type |-> "link", abs |-> TRUE, to |-> to]
Socket == [type |-> "other"]

FarmOf ==
  (<<"a">> :> {None, Link(<<"..", "q", "..", "p">>)})
  @@ (<<"b">> :> {Link(<<"..", "farm">>)})

StoreOf ==
  (<<"p">> :> {File(1), File(2), Directory})
  @@ (<<"p", "x">> :> {File(1), Socket})
  @@ (<<"farm">> :> {Directory})
=============================================================================
