----------------------------- MODULE MCLiveFeeds -----------------------------
\* Constants of the runs of LiveFeeds: two tasks and two screening points.
EXTENDS LiveFeeds

CONSTANTS upper, lower
MCLeadAreas == {<<>>, <<lower>>}
MCScreening == <<upper, lower>>
=============================================================================
