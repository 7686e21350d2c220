---------------------------- MODULE MemoryLedger ----------------------------
(***************************************************************************)
(* What the memory service promises about the history of every memory,     *)
(* whatever requests run at once: the version rows of a memory form a      *)
(* ledger that only grows, one entry at a time, along the life cycle       *)
(*                                                                         *)
(*     approved, approved, ..., [archived,] [deleted]                      *)
(*                                                                         *)
(* no text the detector flags is ever recorded in it, and no review        *)
(* proposal is recorded twice, in this ledger or in another.               *)
(***************************************************************************)
EXTENDS Naturals, Sequences

CONSTANTS Facts, Proposals, NoProposal, Contents, Secrets

VARIABLE ledger

Entry == [proposal : Proposals \cup {NoProposal},
          status   : {"approved", "archived", "deleted"},
          content  : Contents]

Init == ledger = [f \in Facts |-> <<>>]

\* No entry of any ledger was made by proposal p.
Unused(p) ==
  \A f \in Facts : \A i \in 1..Len(ledger[f]) : ledger[f][i].proposal # p

Latest(f) == ledger[f][Len(ledger[f])]

Record(f, e) ==
  /\ e.content \notin Secrets
  /\ e.proposal # NoProposal => Unused(e.proposal)
  /\ ledger' = [ledger EXCEPT ![f] = Append(@, e)]

\* A memory is born approved.
Open(f, e) ==
  /\ ledger[f] = <<>>
  /\ e.status = "approved"
  /\ Record(f, e)

\* Only a reviewed proposal changes the text of an approved memory.
Amend(f, e) ==
  /\ ledger[f] # <<>>
  /\ Latest(f).status = "approved"
  /\ e.status = "approved"
  /\ e.proposal # NoProposal
  /\ Record(f, e)

Archive(f, e) ==
  /\ ledger[f] # <<>>
  /\ Latest(f).status = "approved"
  /\ e.status = "archived"
  /\ e.content = Latest(f).content
  /\ Record(f, e)

\* Deletion keeps the text and is final.
Delete(f, e) ==
  /\ ledger[f] # <<>>
  /\ Latest(f).status # "deleted"
  /\ e.status = "deleted"
  /\ e.content = Latest(f).content
  /\ Record(f, e)

Next == \E f \in Facts, e \in Entry :
          Open(f, e) \/ Amend(f, e) \/ Archive(f, e) \/ Delete(f, e)

Spec == Init /\ [][Next]_ledger
=============================================================================
