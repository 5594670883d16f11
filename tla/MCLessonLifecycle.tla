---------------------------- MODULE MCLessonLifecycle ----------------------------
EXTENDS LessonLifecycle, TLC

MCAllFaults == {"write_error", "index_error", "crash"}

\* Threads and lessons are interchangeable.
MCSymmetry == Permutations(Thread) \cup Permutations(Lesson)
================================================================================
