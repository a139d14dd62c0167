---- MODULE MCRateLimiter ----
(* RateLimiter for TLC, beside the promise it implements.                   *)
EXTENDS RateLimiter

Promise == INSTANCE SlidingWindow

\* The deque with its lazy eviction decides as counting the whole history
\* would, refusals and key rotations included, up to the error of the clock:
\* RateLimiter.check implements the sliding window.
ImplementsSlidingWindow == Promise!Spec
====
