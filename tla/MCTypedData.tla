---------------------------- MODULE MCTypedData ----------------------------
(***************************************************************************)
(* An instance of TypedData: one mail, and variants of it that differ in   *)
(* one thing each: a number, the account, the domain or a type.            *)
(***************************************************************************)
EXTENDS TypedData, TLC

Def(name, type) == [name |-> name, type |-> type]

DomainDefs == <<Def("chainId", "felt")>>
Person     == <<Def("name", "felt")>>
Rich       == <<Def("wallet", "Wallet")>>

\* The types of a mail, by what is particular about them.
Plain == [StarkNetDomain |-> DomainDefs,
             Mail |-> <<Def("from", "Person"), Def("text", "felt")>>, Person |-> Person]
MCTypes ==
  [plain    |-> Plain,
   swapped  |-> [Plain EXCEPT !.Mail = <<Def("text", "felt"), Def("from", "Person")>>],
   other    |-> [Plain EXCEPT !.Person = <<Def("alias", "felt")>>],
   two      |-> [StarkNetDomain |-> DomainDefs, Person |-> Person, Note |-> Person,
                 Mail |-> <<Def("from", "Person"), Def("text", "Note")>>],
   deep     |-> [StarkNetDomain |-> DomainDefs, Mail |-> Plain.Mail, Person |-> Rich,
                 Wallet |-> <<Def("coin", "Coin")>>, Coin |-> <<Def("x", "felt")>>],
   deepest  |-> [StarkNetDomain |-> DomainDefs, Mail |-> Plain.Mail, Person |-> Rich,
                 Wallet |-> <<Def("coin", "Coin")>>, Coin |-> <<Def("y", "felt")>>],
   deeper   |-> [StarkNetDomain |-> DomainDefs, Mail |-> Plain.Mail, Person |-> Rich,
                 Wallet |-> <<Def("cash", "felt")>>],
   noDomain |-> [Mail |-> Plain.Mail, Person |-> Person],
   broken   |-> [StarkNetDomain |-> DomainDefs, Mail |-> Plain.Mail]]

MCMaps == DOMAIN MCTypes

Base == [map |-> "plain", primary |-> "Mail", domain |-> [chainId |-> <<1>>],
         account |-> 1, message |-> [from |-> <<1, 2>>, text |-> <<1>>]]

\* 9 is refused.
MCData ==
  {[Base EXCEPT !.map = m] : m \in MCMaps} \cup
  {[Base EXCEPT !.account = 2], [Base EXCEPT !.primary = "Letter"],
   [Base EXCEPT !.domain = [chainId |-> <<2>>]],
   [Base EXCEPT !.message = [from |-> <<1>>, text |-> <<1>>]],
   [Base EXCEPT !.message = [from |-> <<1>>, text |-> <<2, 1>>]],
   [Base EXCEPT !.message = [from |-> <<1, 9>>, text |-> <<1>>]]}

\* Nothing tells one caller from another.
Symmetry == Permutations(Callers)
=============================================================================
