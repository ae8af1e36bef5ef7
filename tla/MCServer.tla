------------------------------ MODULE MCServer ------------------------------
EXTENDS ServerProperties, TLC

R(to, last) == [to |-> to, last |-> last]

Page == R("page", FALSE)
LastPage == R("page", TRUE)

Part == R("part", FALSE)

\* What can go wrong between the answers of one connection.
Sendings ==
  {<<Page, R("file", FALSE)>>, <<Part, LastPage, Page>>, <<R("noroute", FALSE), Page>>,
   <<R("nohost", FALSE), R("large", TRUE)>>, <<R("early", FALSE), Page>>, <<R("upgrade", FALSE), Page>>}

\* A long answer, which a peer may not take, a last request and no HTTP.
LongSendings == {<<R("large", FALSE)>>, <<LastPage>>, <<R("bad", FALSE)>>}

ConnsAreAlike == Permutations(Conns)
=============================================================================
