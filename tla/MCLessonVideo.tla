---------------------------- MODULE MCLessonVideo ----------------------------
(* Instances of LessonVideo for TLC. *)
EXTENDS LessonAccess, TLC

CONSTANTS u1, u2, h1, w1, w2, e1, e2

NoHandPolicy == [h \in {} |-> {}]
BothPolicies == h1 :> {"public", "signed"}

TypesYouTube == [muxAssetId |-> {}, muxPlaybackId |-> {}, youtubeVideoId |-> {"youtube"}]
TypesPublic ==
  [muxAssetId |-> {h1}, muxPlaybackId |-> {[asset |-> h1, policy |-> "public"]},
   youtubeVideoId |-> {"youtube", Malformed}]

=============================================================================
