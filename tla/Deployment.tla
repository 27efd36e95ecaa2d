----------------------------- MODULE Deployment -----------------------------
(***************************************************************************)
(* Where the API runs and what it is configured with (config/env.ts), the  *)
(* decision to start at all, and the wall in front of it (create-app.ts).  *)
(*                                                                         *)
(* An environment keeps of each variable what the code asks of it: which   *)
(* of the secrets have a value, where the database is, whether the bypass  *)
(* and the wall are on.  A malformed value fails the parse and is left     *)
(* out; NODE_ENV=test behaves as development.                              *)
(***************************************************************************)
NodeEnv == {"unset", "development", "production"}
Database == {"loopback", "elsewhere", "unparseable"}

Secret ==
  {"CLERK_SECRET_KEY", "CLERK_JWT_ISSUER", "STRIPE_SECRET_KEY", "STRIPE_WEBHOOK_SECRET",
   "STRIPE_PRICE_ID_MONTHLY", "MUX_TOKEN_ID", "MUX_TOKEN_SECRET", "MUX_WEBHOOK_SECRET",
   "MUX_SIGNING_KEY_ID", "MUX_SIGNING_KEY_PRIVATE", "DIAZ_INTERNAL_API_KEY"}

SigningPair == {"MUX_SIGNING_KEY_ID", "MUX_SIGNING_KEY_PRIVATE"}

Environment ==
  [nodeEnv : NodeEnv, database : Database, bypass : BOOLEAN, comingSoon : BOOLEAN,
   secrets : SUBSET Secret]

has(env, secret) == secret \in env.secrets

\* Mutant of isLoopbackDatabaseUrl: what does not parse passes for local.
isNotKnownRemote(database) == database # "elsewhere"

\* What is unparseable is not this machine.
isLoopbackDatabaseUrl(database) == database = "loopback"

\* Mutant of isDeployment: the spelling the startup rules had before.
isProductionOnly(env) == env.nodeEnv = "production"

isDeployment(env) == env.nodeEnv = "production" \/ ~ isLoopbackDatabaseUrl(env.database)

isDevAuthBypassEnabled(env) == ~ isDeployment(env) /\ env.bypass
isUnsignedPaidPlaybackAllowed(env) == ~ isDeployment(env)

\* Both of a pair or neither.
paired(env, one, other) == has(env, one) <=> has(env, other)

signsPlayback(env) ==
  /\ paired(env, "MUX_SIGNING_KEY_ID", "MUX_SIGNING_KEY_PRIVATE")
  /\ isDeployment(env) => SigningPair \subseteq env.secrets

authenticates(env) ==
  /\ env.bypass => env.nodeEnv # "production" /\ isLoopbackDatabaseUrl(env.database)
  /\ ~ env.bypass => {"CLERK_SECRET_KEY", "CLERK_JWT_ISSUER"} \subseteq env.secrets

bills(env) ==
  /\ has(env, "STRIPE_SECRET_KEY") => has(env, "STRIPE_PRICE_ID_MONTHLY")
  /\ isDeployment(env) /\ has(env, "STRIPE_SECRET_KEY") => has(env, "STRIPE_WEBHOOK_SECRET")
  /\ has(env, "STRIPE_WEBHOOK_SECRET") => has(env, "STRIPE_SECRET_KEY")

ingests(env) ==
  /\ paired(env, "MUX_TOKEN_ID", "MUX_TOKEN_SECRET")
  /\ isDeployment(env) => has(env, "MUX_WEBHOOK_SECRET")

\* The process starts; otherwise createApiApp throws before anything is created.
validateApiEnv(env) ==
  /\ authenticates(env)
  /\ bills(env)
  /\ ingests(env)
  /\ signsPlayback(env)
  /\ isDeployment(env) => has(env, "DIAZ_INTERNAL_API_KEY")

\* What useComingSoonWall lets through: probes, webhooks, the marketing site.
behindWall(env, path) == env.comingSoon /\ path \notin {"health", "webhooks", "internal"}

=============================================================================
