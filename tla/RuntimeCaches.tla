--------------------------- MODULE RuntimeCaches ---------------------------
(***************************************************************************)
(* The two caches of a runtime process side by side: the access tokens it  *)
(* presents upstream and the keys it verifies its callers by.              *)
(***************************************************************************)
EXTENDS UpstreamTokens, SigningKeys

CachesSpec == TokensSpec /\ KeysSpec

\* The two caches of a runtime never hand out what has gone stale, nor give
\* up what still serves.  upstream.py: an upstream token that has expired is
\* presented only if the reply that brought it took longer than the margin,
\* and no token is requested while a cached one would do.  oidc_client.py: a
\* signing key is accepted only if it was published shortly before, and
\* refused only if it is not published or has just been.
CachesHonest == TokensHonest /\ KeysHonest
=============================================================================
