----------------------------- MODULE ErrorMapping ------------------------------
(***************************************************************************)
(* From exceptions to answers: GlobalExceptionFilter and the errors it     *)
(* knows. An exception is a domain error with a code, an HTTP exception    *)
(* with a status and perhaps a code and a retryAfter of its own, or        *)
(* anything else.                                                          *)
(***************************************************************************)
EXTENDS Integers

Domain(code) == [kind |-> "domain", code |-> code, status |-> 0, retryAfter |-> 0]
Http(status) == [kind |-> "http", code |-> "", status |-> status, retryAfter |-> 0]
HttpCoded(status, code, retryAfter) ==
    [kind |-> "http", code |-> code, status |-> status, retryAfter |-> retryAfter]
Unhandled == [kind |-> "other", code |-> "", status |-> 0, retryAfter |-> 0]

-----------------------------------------------------------------------------

\* The errors of domain-errors.ts.
InvalidCursorError == Domain("INVALID_CURSOR")
InvalidDateError == Domain("PAYLOAD_VALIDATION_FAILED")
UnknownVendorError == Domain("PAYLOAD_VALIDATION_FAILED")
UnknownClubCodeError == Domain("PAYLOAD_VALIDATION_FAILED")

\* The exceptions of guards and pipes.
UnauthorizedException == Http(401)
BadRequestException == Http(400)
PayloadValidationFailed == HttpCoded(400, "PAYLOAD_VALIDATION_FAILED", 0)

-----------------------------------------------------------------------------

DomainErrorToHttp(code) ==
    CASE code \in {"INVALID_CURSOR", "PAYLOAD_VALIDATION_FAILED"} -> 400
      [] code = "NOT_FOUND" -> 404
      [] OTHER -> 500

MapStatusToCode(status) ==
    CASE status = 400 -> "PAYLOAD_VALIDATION_FAILED"
      [] status = 401 -> "UNAUTHORIZED"
      [] status = 404 -> "NOT_FOUND"
      [] status = 409 -> "CONFLICT"
      [] status = 415 -> "UNSUPPORTED_MEDIA_TYPE"
      [] status = 422 -> "UNPROCESSABLE_ENTITY"
      [] status = 429 -> "TOO_MANY_REQUESTS"
      [] status = 503 -> "SERVICE_UNAVAILABLE"
      [] OTHER -> "INTERNAL_ERROR"

\* buildProblem, with the Retry-After header (0: none).
Problem(status, code, retryAfter) ==
    [status |-> status, code |-> code, retryAfter |-> retryAfter]

\* Mutant: an HTTP exception is not recognised as one.
CatchDomainOnly(e) ==
    IF e.kind = "domain"
      THEN Problem(DomainErrorToHttp(e.code), e.code, 0)
      ELSE Problem(500, "INTERNAL_ERROR", 0)

\* GlobalExceptionFilter.catch
Catch(e) ==
    CASE e.kind = "domain" ->
            Problem(DomainErrorToHttp(e.code),
                    IF DomainErrorToHttp(e.code) = 500 THEN "INTERNAL_ERROR" ELSE e.code, 0)
      [] e.kind = "http" ->
            Problem(e.status,
                    IF e.code # "" THEN e.code ELSE MapStatusToCode(e.status),
                    e.retryAfter)
      [] OTHER -> Problem(500, "INTERNAL_ERROR", 0)

=============================================================================
