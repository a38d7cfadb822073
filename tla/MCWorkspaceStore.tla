-------------------------- MODULE MCWorkspaceStore --------------------------
EXTENDS WorkspaceStore, TLC

Sym == Permutations(Workspaces) \cup Permutations(Files)

\* Epochs are only ever compared with the ones an operation captured, and of
\* an operation that is done only what the properties read matters.
SameEpochs(captured) == {e \in DOMAIN ep : ep[e] = captured[e]}
TaskView(t) ==
    CASE ~Started(t) -> <<>>
      [] Done(t) -> <<task[t].kind, task[t].extend, task[t].mark, task[t].token,
                      task[t].base.where, task[t].base.ws>>
      [] OTHER -> <<[task[t] EXCEPT !.ep = SameEpochs(@)],
                    {u \in Ids : Started(u) /\ task[u].ep.queue = task[t].ep.queue}>>
View == <<[t \in Ids |-> TaskView(t)], vaultQ, importQ, session, shown, token, ready, storage,
          head, vault, seen, committed, restored, suppressed,
          IF hyd = None THEN None ELSE [hyd EXCEPT !.ep = SameEpochs(@)],
          cloud, ghosts, moves>>
=============================================================================
