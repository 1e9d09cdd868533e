------------------------------ MODULE MCEpisodes ------------------------------
EXTENDS Faults

\* Differences of one cent that floats call less than a cent.
MCCloseCents == { <<2160, 2161>>, <<2400, 2401>> }

\* One instance of each difficulty.
MCPlayed ==
    { MakeInstance(difficulty, 2400, 10, 14, 14, 1) : difficulty \in Difficulties }
=============================================================================
