--------------------------- MODULE AtomicPublisher ---------------------------
(***************************************************************************)
(* What CurrentStatePublisher promises: every publication is one atomic    *)
(* step that replaces the snapshot, the lifecycle, the looked-up           *)
(* classifications and the encoded response together, each computed from   *)
(* the state at that very step (docs/architecture.md, "Publication         *)
(* model").                                                                *)
(***************************************************************************)
EXTENDS PublisherState

\* The start of a poll is recorded without touching the encoded response.
PollStarted ==
    /\ lastPoll' \in Nat
    /\ StorePollStart(lastPoll')

\* Only a newer generation replaces the membership, and the classifications
\* carried with it belong to the variants it contains.
PublishMembership ==
    /\ generation' \in Nat /\ generation' > generation
    /\ membership' \in Membership
    /\ classifications' \in ClassificationMap
    /\ lifecycle' \in {"classifying", "complete"}
    /\ MatchesMembership(membership', classifications')
    /\ StoreMembership(generation', membership', classifications', lifecycle',
                       Encode(lastPoll,
                              Materialize(membership', 0, classifications'),
                              lifecycle', None))

\* A delta advances the current generation by exactly one revision and
\* forgets no classification made so far.
PublishUpdate ==
    LET snapshot == Materialize(membership, revision + 1, classifications')
    IN  /\ membership # None
        /\ classifications' \in ClassificationMap
        /\ Present(classifications) \subseteq Present(classifications')
        /\ MatchesMembership(membership, classifications')
        /\ lifecycle' \in Lifecycles
        /\ StoreUpdate(revision + 1, snapshot, classifications', lifecycle',
                       Encode(lastPoll, snapshot, lifecycle', lastError))

PublishLifecycle ==
    /\ latest # None
    /\ lifecycle' \in Lifecycles \ {lifecycle}
    /\ StoreLifecycle(lifecycle',
                      Encode(lastPoll, latest, lifecycle', lastError))

PublishFailure ==
    /\ lastError' \in Errors
    /\ StoreFailure(lastError',
                    Encode(lastPoll, latest, lifecycle, lastError'))

Restart == StateReset

Next ==
    \/ PollStarted
    \/ PublishMembership
    \/ PublishUpdate
    \/ PublishLifecycle
    \/ PublishFailure
    \/ Restart

Spec == StateInit /\ [][Next]_readerVars
=============================================================================
