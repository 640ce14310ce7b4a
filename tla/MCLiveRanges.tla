---------------------------- MODULE MCLiveRanges ----------------------------
(* <body>"12" <a>"34"</a> "5"</body> and a loose element, with one range on  *)
(* any two points and a second record that watches.                          *)
EXTENDS LiveRanges

CONSTANTS body, elA, elB, elC, textS, textT, textU, textV, textX, frag, range, watcher

MCKids == [p \in Parents |-> IF p = body THEN <<textS, elA, textU>> ELSE IF p = elA THEN <<textT>> ELSE <<>>]
MCData == [n \in Text |-> CASE n = textS -> <<1, 2>> [] n = textT -> <<3, 4>> [] n = textU -> <<5>>
                            [] OTHER -> <<>>]
MCLive == {body, elA, elB, textS, textT, textU}
MCPage(pair, watch, editors) ==
  [kids |-> MCKids, data |-> MCData, live |-> MCLive, touched |-> {}, kept |-> {}, editors |-> editors,
   at |-> [rec \in Record |-> IF rec = range THEN pair ELSE watch]]

MCPoints == {pt \in {Point(n, k) : n \in MCLive \ {elB}, k \in 0 .. 3} :
               pt.at <= IF pt.in \in Text THEN Len(MCData[pt.in]) ELSE Len(MCKids[pt.in])}
MCPairs == {pair \in [start : MCPoints, end : MCPoints] :
              LET line == LineOf(MCPage(pair, pair, {}), body)
              IN PlaceOn(line, pair.start) <= PlaceOn(line, pair.end)}
MCSome == {pair \in MCPairs : {pair.start, pair.end} \subseteq
             {Point(textS, 1), Point(textT, 1), Point(body, 3)}}
MCAt(pt) == [start |-> pt, end |-> pt]

\* A smaller page: the other element holds elA, which leaves first when it is
\* emptied.
MCNested == [p \in Parents |-> IF p = body THEN <<elB>> ELSE IF p = elB THEN <<elA, textT>> ELSE <<>>]
MCNestedPage(pair) == [MCPage(pair, MCAt(Point(elB, 1)), {})
                         EXCEPT !.kids = MCNested, !.live = {body, elA, elB, textT}]

\* Every range beside each of two others; an editor at every point beside
\* some ranges; some ranges that see two calls; two on the smaller page.
MCStarts ==
  {[page |-> MCPage(pair, watch, {}), calls |-> 1] : pair \in MCPairs,
     watch \in {[start |-> Point(textS, 1), end |-> Point(textT, 1)],
                [start |-> Point(textT, 1), end |-> Point(body, 2)]}}
  \cup {[page |-> MCPage(pair, MCAt(pt), {watcher}), calls |-> 1] : pair \in MCSome, pt \in MCPoints}
  \cup {[page |-> MCPage(pair, MCAt(Point(body, 3)), {watcher}), calls |-> 2] : pair \in MCSome}
  \cup {[page |-> MCNestedPage(pair), calls |-> 2] :
           pair \in {MCAt(Point(body, 0)), [start |-> Point(textT, 1), end |-> Point(textT, 2)]}}
=============================================================================
