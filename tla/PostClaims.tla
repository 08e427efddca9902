------------------------------ MODULE PostClaims ------------------------------
(***************************************************************************)
(* What the documents say of posts and the code does not do. Each is        *)
(* checked by a run that expects TLC to find a violation.                   *)
(***************************************************************************)
EXTENDS MCPostPublishing

\* docs/post-schema-and-publish-flow-design.md:129: a scheduled post publishes
\* the version approved when it was scheduled, however often the artifact is
\* refined before. When its time comes bumpArtifactPinRevision finds that the
\* pin is not the head and throws; the job ends and the post stays SCHEDULED.
ScheduledPublishesItsPin ==
  \A p \in Posts :
    post[p].status = "SCHEDULED" /\ Undisturbed(p) ~>
      post[p].status # "SCHEDULED" \/ ~Undisturbed(p)

=============================================================================
