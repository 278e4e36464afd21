----------------------------- MODULE MCBgpParser -----------------------------
(* Values for model checking BgpParser.                                     *)
EXTENDS BgpParser

CONSTANTS t, a, b, p1, p2, p3, f1, f2

MCASNs     == {t, a, b}
MCtier1    == {t}
MCSeed     == {t}
MCLocated  == {a, b}
MCFetchers == {f1, f2}   \* one per AS number that is not in the seed table
MCPrefixes == {p1, p2, p3}
MCInCity   == {p1}

Update(path, announced, withdrawn, peerASN) ==
  [path |-> path, announced |-> announced, withdrawn |-> withdrawn, peerASN |-> peerASN]

MCUpdates == {
  Update(<<t, a>>, <<p1, p2>>, <<>>, t),        \* two prefixes of one origin
  Update(<<t, b>>, <<p2>>, <<p1>>, t),          \* another origin; a withdrawal
  Update(<<a, b>>, <<p2, p3>>, <<>>, a),        \* no hop of the seed table
  Update(<<b>>, <<p3>>, <<p3>>, b),             \* announced and withdrawn at once
  Update(<<t, a, t, b>>, <<p3>>, <<>>, t),      \* a leak
  Update(<<>>, <<p1>>, <<p2, p3>>, a),          \* no path
  Update(<<>>, <<>>, <<p1, p2>>, NoAS)}         \* a peer AS that does not parse
=============================================================================
